---- MODULE Spec2Model ----
(***************************************************************************)
(* A model of the safety classification, AI-assisted analysis and deletion *)
(* gating of CoffeeCleaner (src/safety_analysis.py, src/config_manager.py, *)
(* src/config.py, src/main.py, src/deletion.py, src/quick_clean.py).       *)
(*                                                                         *)
(* Paths are strings and are handled character by character, as the        *)
(* Python code does (os.path.normpath, os.path.expanduser,                 *)
(* fnmatch.fnmatch, os.path.basename, str.lower, substring tests).         *)
(***************************************************************************)
EXTENDS Integers, Sequences, FiniteSets, TLC

(***************************************************************************)
(* Strings.                                                                *)
(***************************************************************************)

\* s[i] of Python (1-based here).
CharAt(s, i) == SubSeq(s, i, i)

\* s[i:] of Python, with i the 1-based index of the first kept character.
StrFrom(s, i) == SubSeq(s, i, Len(s))

\* s.startswith(prefix)
StartsWith(s, prefix) ==
  /\ Len(prefix) <= Len(s)
  /\ SubSeq(s, 1, Len(prefix)) = prefix

\* s.endswith(suffix)
EndsWith(s, suffix) ==
  /\ Len(suffix) <= Len(s)
  /\ SubSeq(s, Len(s) - Len(suffix) + 1, Len(s)) = suffix

\* sub in s
Contains(s, sub) ==
  \E i \in 1..(Len(s) - Len(sub) + 1) : SubSeq(s, i, i + Len(sub) - 1) = sub

\* s.strip() is empty: every character is whitespace.
IsBlank(s) == \A i \in 1..Len(s) : CharAt(s, i) \in {" ", "\t", "\n", "\r"}

UpperAlphabet == "ABCDEFGHIJKLMNOPQRSTUVWXYZ"
LowerAlphabet == "abcdefghijklmnopqrstuvwxyz"

LowerChar(c) ==
  IF \E i \in 1..Len(UpperAlphabet) : CharAt(UpperAlphabet, i) = c
  THEN CharAt(LowerAlphabet, CHOOSE i \in 1..Len(UpperAlphabet) : CharAt(UpperAlphabet, i) = c)
  ELSE c

\* str.lower()
RECURSIVE Lower(_)
Lower(s) == IF s = "" THEN "" ELSE LowerChar(CharAt(s, 1)) \o Lower(StrFrom(s, 2))

\* Index of the first "/" of s at or after position i, or Len(s) + 1.
RECURSIVE FindSlash(_, _)
FindSlash(s, i) ==
  IF i > Len(s) THEN Len(s) + 1
  ELSE IF CharAt(s, i) = "/" THEN i
  ELSE FindSlash(s, i + 1)

\* s.split("/") as a sequence of strings.
RECURSIVE SplitSlash(_)
SplitSlash(s) ==
  LET k == FindSlash(s, 1)
  IN IF k > Len(s) THEN <<s>>
     ELSE <<SubSeq(s, 1, k - 1)>> \o SplitSlash(StrFrom(s, k + 1))

\* "/".join(comps)
RECURSIVE JoinSlash(_)
JoinSlash(comps) ==
  IF comps = <<>> THEN ""
  ELSE IF Len(comps) = 1 THEN comps[1]
  ELSE comps[1] \o "/" \o JoinSlash(Tail(comps))

(***************************************************************************)
(* os.path (posixpath).                                                    *)
(***************************************************************************)

\* The home directory of the user running the program ($HOME).
HOME == "/Users/u"

\* s.rstrip("/")
RECURSIVE RStripSlash(_)
RStripSlash(s) ==
  IF s # "" /\ CharAt(s, Len(s)) = "/" THEN RStripSlash(SubSeq(s, 1, Len(s) - 1)) ELSE s

\* os.path.expanduser: "~" and "~/..." become $HOME; "~name" names a user
\* looked up in the password database, where no other user is known, so the
\* path is returned unchanged.
expanduser(path) ==
  IF ~StartsWith(path, "~") THEN path
  ELSE LET i == FindSlash(path, 1)
       IN IF i # 2 THEN path
          ELSE LET r == RStripSlash(HOME) \o StrFrom(path, i)
               IN IF r = "" THEN "/" ELSE r

\* The component loop of os.path.normpath: "" and "." are skipped, ".." pops
\* the last component unless there is none to pop.
RECURSIVE NormComps(_, _, _)
NormComps(comps, acc, absolute) ==
  IF comps = <<>> THEN acc
  ELSE LET c == Head(comps)
           rest == Tail(comps)
       IN IF c \in {"", "."} THEN NormComps(rest, acc, absolute)
          ELSE IF \/ c # ".."
                  \/ (~absolute /\ acc = <<>>)
                  \/ (acc # <<>> /\ acc[Len(acc)] = "..")
               THEN NormComps(rest, Append(acc, c), absolute)
          ELSE IF acc # <<>>
               THEN NormComps(rest, SubSeq(acc, 1, Len(acc) - 1), absolute)
          ELSE NormComps(rest, acc, absolute)

\* os.path.normpath
normpath(path) ==
  IF path = "" THEN "."
  ELSE LET absolute == StartsWith(path, "/")
           \* POSIX: exactly two leading slashes are kept, three or more are one
           slashes == IF ~absolute THEN ""
                      ELSE IF StartsWith(path, "//") /\ ~StartsWith(path, "///") THEN "//"
                      ELSE "/"
           r == slashes \o JoinSlash(NormComps(SplitSlash(path), <<>>, absolute))
       IN IF r = "" THEN "." ELSE r

\* os.path.basename: what follows the last "/".
basename(path) ==
  LET comps == SplitSlash(path) IN comps[Len(comps)]

\* os.path.dirname: what precedes the last "/", without trailing slashes
\* unless it is all slashes.
dirname(path) ==
  LET comps == SplitSlash(path)
      head == SubSeq(path, 1, Len(path) - Len(comps[Len(comps)]))
  IN IF head # "" /\ RStripSlash(head) # "" THEN RStripSlash(head) ELSE head

\* safety_analysis.normalize_path
normalize_path(path) == normpath(expanduser(path))

(***************************************************************************)
(* fnmatch.fnmatch on POSIX (os.path.normcase is the identity there): "*"  *)
(* matches any run of characters, "/" included, "?" one character, every   *)
(* other character itself; the whole name must match.  No pattern of the   *)
(* rule table uses a bracket expression.                                   *)
(***************************************************************************)
RECURSIVE FnMatchFrom(_, _, _, _)
FnMatchFrom(name, i, pat, j) ==
  IF j > Len(pat) THEN i > Len(name)
  ELSE IF CharAt(pat, j) = "*"
       THEN \E k \in i..(Len(name) + 1) : FnMatchFrom(name, k, pat, j + 1)
  ELSE IF i > Len(name) THEN FALSE
  ELSE IF CharAt(pat, j) = "?" \/ CharAt(pat, j) = CharAt(name, i)
       THEN FnMatchFrom(name, i + 1, pat, j + 1)
  ELSE FALSE

fnmatch(name, pat) == FnMatchFrom(name, 1, pat, 1)

(***************************************************************************)
(* config.PREDEFINED_RULES: an insertion-ordered dict, iterated in the     *)
(* order of declaration.                                                   *)
(***************************************************************************)
PREDEFINED_RULES ==
  <<
    [pattern |-> "~/Library/Caches/*", safety |-> "green",
     reason |-> "Application cache files. Generally safe to delete."],
    [pattern |-> "~/Library/Caches/com.apple.Safari/*", safety |-> "green",
     reason |-> "Safari browser cache. Safe to delete, will be regenerated."],
    [pattern |-> "~/Library/Caches/com.google.Chrome/*", safety |-> "green",
     reason |-> "Chrome browser cache. Safe to delete, will be regenerated."],
    [pattern |-> "~/Library/Caches/com.mozilla.firefox/*", safety |-> "green",
     reason |-> "Firefox browser cache. Safe to delete, will be regenerated."],
    [pattern |-> "/System/Library/Caches/*", safety |-> "green",
     reason |-> "System cache files. Safe to delete, macOS will regenerate as needed."],
    [pattern |-> "/private/var/folders/*/C/*", safety |-> "green",
     reason |-> "Temporary cache files. Safe to delete."],
    [pattern |-> "/tmp/*", safety |-> "green",
     reason |-> "Temporary files. Safe to delete."],
    [pattern |-> "~/Library/Application Support/*/Temp/*", safety |-> "green",
     reason |-> "Application temporary files. Safe to delete."],
    [pattern |-> "~/Downloads/*", safety |-> "green",
     reason |-> "User-downloaded files. User should verify before deleting."],
    [pattern |-> "~/Desktop/*", safety |-> "green",
     reason |-> "User desktop files. User should verify before deleting."],
    [pattern |-> "~/.Trash/*", safety |-> "green",
     reason |-> "Items in trash. Safe to delete permanently."],
    [pattern |-> "/private/var/log/*", safety |-> "green",
     reason |-> "System log files. Generally safe to delete but useful for troubleshooting."],
    [pattern |-> "~/Library/Logs/*", safety |-> "green",
     reason |-> "User application logs. Generally safe to delete."],
    [pattern |-> "~/Library/Safari/Downloads.plist", safety |-> "green",
     reason |-> "Safari downloads list. Safe to delete."],
    [pattern |-> "~/Library/Safari/History.db*", safety |-> "green",
     reason |-> "Safari browsing history. Safe to delete if you don't need history."],
    [pattern |-> "~/Library/Application Support/MobileSync/Backup/*", safety |-> "orange",
     reason |-> "iOS device backups. Safe to delete if you have recent cloud backups, but deletion is permanent."],
    [pattern |-> "~/Documents/*", safety |-> "orange",
     reason |-> "User documents. Important files - be careful when deleting."],
    [pattern |-> "~/Pictures/*", safety |-> "orange",
     reason |-> "User photos and images. Important files - be careful when deleting."],
    [pattern |-> "~/Movies/*", safety |-> "orange",
     reason |-> "User videos. Important files - be careful when deleting."],
    [pattern |-> "~/Music/*", safety |-> "orange",
     reason |-> "User music files. Important files - be careful when deleting."],
    [pattern |-> "~/Library/*", safety |-> "orange",
     reason |-> "Contains important user settings and data. Be very careful."],
    [pattern |-> "~/Library/Preferences/*", safety |-> "orange",
     reason |-> "Application preferences. Deleting may reset app settings."],
    [pattern |-> "~/Library/Application Support/*", safety |-> "orange",
     reason |-> "Application support files and user data. May contain important information."],
    [pattern |-> "~/Library/Keychains/*", safety |-> "orange",
     reason |-> "Keychain files containing passwords and certificates. Be very careful."],
    [pattern |-> "~/Library/Mail/*", safety |-> "orange",
     reason |-> "Mail data and settings. Deleting will remove email data."],
    [pattern |-> "~/Library/Calendars/*", safety |-> "orange",
     reason |-> "Calendar data. Deleting will remove calendar events."],
    [pattern |-> "~/Library/Contacts/*", safety |-> "orange",
     reason |-> "Contact data. Deleting will remove address book entries."],
    [pattern |-> "/usr/local/*", safety |-> "orange",
     reason |-> "User-installed software and libraries. May be safe to delete specific items."],
    [pattern |-> "/opt/*", safety |-> "orange",
     reason |-> "Third-party software installations. Check before deleting."],
    [pattern |-> "/var/db/*", safety |-> "orange",
     reason |-> "System databases. Some files may be safe to delete, others are critical."],
    [pattern |-> "/var/log/*", safety |-> "orange",
     reason |-> "System log files. Generally safe but useful for troubleshooting."],
    [pattern |-> "/var/tmp/*", safety |-> "orange",
     reason |-> "Temporary files that persist across reboots. Usually safe but check contents."],
    [pattern |-> "/System/*", safety |-> "red",
     reason |-> "Critical macOS system files. Do not delete."],
    [pattern |-> "/Library/*", safety |-> "red",
     reason |-> "System library files. Critical for macOS operation."],
    [pattern |-> "/bin/*", safety |-> "red",
     reason |-> "Essential system binaries. Do not delete."],
    [pattern |-> "/sbin/*", safety |-> "red",
     reason |-> "System administration binaries. Do not delete."],
    [pattern |-> "/usr/bin/*", safety |-> "red",
     reason |-> "User system binaries. Do not delete."],
    [pattern |-> "/usr/sbin/*", safety |-> "red",
     reason |-> "User system administration binaries. Do not delete."],
    [pattern |-> "/usr/lib/*", safety |-> "red",
     reason |-> "System libraries. Do not delete."],
    [pattern |-> "/usr/libexec/*", safety |-> "red",
     reason |-> "System executables. Do not delete."],
    [pattern |-> "/usr/share/*", safety |-> "red",
     reason |-> "System shared files. Do not delete."],
    [pattern |-> "/boot/*", safety |-> "red",
     reason |-> "Boot files. Do not delete."],
    [pattern |-> "/etc/*", safety |-> "red",
     reason |-> "System configuration files. Do not delete."],
    [pattern |-> "/dev/*", safety |-> "red",
     reason |-> "Device files. Do not delete."],
    [pattern |-> "/proc/*", safety |-> "red",
     reason |-> "Process information. Do not delete."],
    [pattern |-> "/Applications/*", safety |-> "red",
     reason |-> "Installed applications. Do not delete this folder directly."],
    [pattern |-> "/Applications/Utilities/*", safety |-> "red",
     reason |-> "System utility applications. Do not delete."],
    [pattern |-> "/var/root/*", safety |-> "red",
     reason |-> "Root user directory. Do not delete."],
    [pattern |-> "/var/vm/*", safety |-> "red",
     reason |-> "Virtual memory files. Do not delete."],
    [pattern |-> "/var/run/*", safety |-> "red",
     reason |-> "Runtime system files. Do not delete."],
    [pattern |-> "/var/spool/*", safety |-> "red",
     reason |-> "System spool files. Do not delete."],
    [pattern |-> "~/Library/Keychains/login.keychain*", safety |-> "red",
     reason |-> "Main user keychain. Contains all saved passwords. Do not delete."],
    [pattern |-> "~/Library/Preferences/com.apple.loginwindow.plist", safety |-> "red",
     reason |-> "Login window preferences. Critical for user login."],
    [pattern |-> "*.tmp", safety |-> "green",
     reason |-> "Temporary file. Generally safe to delete."],
    [pattern |-> "*.cache", safety |-> "green",
     reason |-> "Cache file. Safe to delete, will be regenerated if needed."],
    [pattern |-> "*.log", safety |-> "green",
     reason |-> "Log file. Generally safe to delete but useful for troubleshooting."],
    [pattern |-> "*/.DS_Store", safety |-> "green",
     reason |-> "macOS folder view settings. Safe to delete, will be regenerated."],
    [pattern |-> "*/Thumbs.db", safety |-> "green",
     reason |-> "Windows thumbnail cache. Safe to delete on macOS."],
    [pattern |-> "*.doc", safety |-> "orange",
     reason |-> "Document file. User should verify before deleting."],
    [pattern |-> "*.docx", safety |-> "orange",
     reason |-> "Document file. User should verify before deleting."],
    [pattern |-> "*.pdf", safety |-> "orange",
     reason |-> "PDF document. User should verify before deleting."],
    [pattern |-> "*.txt", safety |-> "orange",
     reason |-> "Text file. User should verify before deleting."],
    [pattern |-> "*.rtf", safety |-> "orange",
     reason |-> "Rich text file. User should verify before deleting."],
    [pattern |-> "*.jpg", safety |-> "orange",
     reason |-> "Image file. User should verify before deleting."],
    [pattern |-> "*.jpeg", safety |-> "orange",
     reason |-> "Image file. User should verify before deleting."],
    [pattern |-> "*.png", safety |-> "orange",
     reason |-> "Image file. User should verify before deleting."],
    [pattern |-> "*.gif", safety |-> "orange",
     reason |-> "Image file. User should verify before deleting."],
    [pattern |-> "*.mp4", safety |-> "orange",
     reason |-> "Video file. User should verify before deleting."],
    [pattern |-> "*.mov", safety |-> "orange",
     reason |-> "Video file. User should verify before deleting."],
    [pattern |-> "*.mp3", safety |-> "orange",
     reason |-> "Audio file. User should verify before deleting."],
    [pattern |-> "*.wav", safety |-> "orange",
     reason |-> "Audio file. User should verify before deleting."],
    [pattern |-> "*.dylib", safety |-> "red",
     reason |-> "Dynamic library. Critical for application operation. Do not delete."],
    [pattern |-> "*.framework/*", safety |-> "red",
     reason |-> "macOS framework. Critical for system/application operation. Do not delete."],
    [pattern |-> "*.kext/*", safety |-> "red",
     reason |-> "Kernel extension. Critical system component. Do not delete."],
    [pattern |-> "*.app/*", safety |-> "red",
     reason |-> "Application bundle. Deleting will remove the entire application."],
    [pattern |-> "*/Contents/MacOS/*", safety |-> "red",
     reason |-> "Application executable. Critical for application operation."]
  >>

(***************************************************************************)
(* Bounds and the inputs the operations are applied to.                    *)
(***************************************************************************)

\* analyze() threads that may be waiting for the provider's answer about one
\* path at the same time.
MaxAnalyzing == 1

\* Paths handed to get_safety_info: shown by the disk analyzer or by Quick
\* Clean, in the spellings the callers may pass.
Paths ==
  { "~/Library/Caches/App/x",
    "~/Library/Keychains/login.keychain-db",
    "~/Library/Preferences/com.apple.loginwindow.plist",
    "/System/Library/Caches/x",
    "/System/Library/CoreServices/boot.efi",
    "/Applications/Utilities/Terminal.app",
    "/Applications/Install macOS Sonoma.app",
    "/x/MyApp.cache",
    "/Users/u/stuff/notes",
    "/Users/u/stuff/../stuff/./notes/",
    "/Users/u/stuff/bootcamp",
    "/Users/u/stuff/x.dylib",
    "/Users/u/stuff/old.log" }

\* Paths the disk analyzer lists, each with an AI icon to click.
AiPaths ==
  { "/Users/u/stuff/bootcamp",
    "/Users/u/stuff/x.dylib",
    "/x/MyApp.cache" }

\* What is on disk when the program starts: three files of ~/Downloads, a
\* macOS installer bundle and a directory of ~/Library/Caches, each with
\* the file it holds.
DiskPaths ==
  { "/Users/u/Downloads/bootcamp",
    "/Users/u/Downloads/notes",
    "/Users/u/Downloads/old.log",
    "/Applications/Install macOS Sonoma.app",
    "/Applications/Install macOS Sonoma.app/InstallESD.dmg",
    "/Users/u/Library/Caches/App",
    "/Users/u/Library/Caches/App/blob" }

\* A directory to scan: a file, a directory that holds a file, a symbolic
\* link and a file that cannot be read, and a symbolic link to a large file
\* that lies outside of the directory.
MusicPaths ==
  { "/Users/u/Music/a",
    "/Users/u/Music/b",
    "/Users/u/Music/b/c",
    "/Users/u/Music/b/l",
    "/Users/u/Music/b/x",
    "/Users/u/Music/s",
    "/Users/u/big" }

\* A directory to scan that holds two files of the same size.
PicturesPaths == { "/Users/u/Pictures/1.png", "/Users/u/Pictures/2.png" }

\* A directory to scan that holds more files than a pool has workers.
MoviesPaths ==
  { "/Users/u/Movies", "/Users/u/Movies/1.mov", "/Users/u/Movies/2.mov",
    "/Users/u/Movies/3.mov", "/Users/u/Movies/4.mov", "/Users/u/Movies/5.mov" }

\* The directories to fill the directory cache with: /System and, one inside
\* the other, MaxNesting directories below it.
MaxNesting == 54

RECURSIVE Nested(_)
Nested(k) == IF k = 0 THEN "/System" ELSE Nested(k - 1) \o "/d"

NestedPaths == { Nested(k) : k \in 1..MaxNesting }

\* Every path of the model, and the paths an AI icon is shown for.
AllPaths ==
  Paths \cup AiPaths \cup DiskPaths \cup MusicPaths \cup PicturesPaths \cup MoviesPaths
Analyzable == AiPaths \cup DiskPaths

(***************************************************************************)
(* Verdicts: the dicts {"safety": ..., "reason": ...}.                     *)
(***************************************************************************)

\* Python's None.
None == [none |-> TRUE]

\* The truth value of a value that is None or a non-empty dict.
Truthy(v) == v # None

GreyVerdict ==
  [safety |-> "grey", reason |-> "Safety level unknown. Click AI icon for analysis."]

(***************************************************************************)
(* State.                                                                  *)
(***************************************************************************)
VARIABLES
  config,        \* ConfigManager._config
  cache,         \* ConfigManager._cache: normalized path -> verdict
  available,     \* GEMINI_AVAILABLE, OPENAI_AVAILABLE (set at import)
  analyzing,     \* path -> the analyze() threads waiting for the provider's answer about it
  saving,        \* the threads inside ConfigManager._save_cache, the file open for writing
  last,          \* the call of the classifier, or of perform_deletion, that returned
                 \* in the last step and what it returned (NoCall after any other step)
  disk,               \* the paths that exist on disk
  scan_results_list,  \* the ListTiles of the disk analyzer's list
  delete_button,      \* "Delete Selected": disabled, visible
  confirmation_row,   \* the inline confirmation: visible, and the selected_items
                      \* its "Yes, Delete" handler closes over
  scan_status_text,   \* scan_status_text.value
  scan_button,        \* "Scan": disabled
  cancel_button,      \* "Cancel": disabled
  scan_thread_state,  \* {"cancelled": ..., "current_path": ...}
  directory_cache,    \* dict path -> results, in insertion order
  scan_threads,       \* the running scan_directory_thread threads
  breadcrumb_row,     \* the paths the breadcrumbs scan on a click
  current_result,     \* Quick Clean: items and the selected paths
  clean_button,       \* Quick Clean "Clean": disabled
  run_analysis,       \* the running run_analysis threads: the categories left
  run_delete          \* the running run_delete threads: their selected_items

classifierVars == <<config, cache, available, analyzing, saving>>
classifyVars == <<classifierVars, last>>
analyzerVars ==
  <<scan_results_list, delete_button, confirmation_row, scan_status_text, scan_button,
    cancel_button, scan_thread_state, directory_cache, scan_threads, breadcrumb_row>>
quickCleanVars == <<current_result, clean_button, run_analysis, run_delete>>
uiVars == <<disk, analyzerVars, quickCleanVars>>
vars == <<classifyVars, uiVars>>

(***************************************************************************)
(* ConfigManager.                                                          *)
(***************************************************************************)

get_gemini_api_key == config.gemini_api_key
get_openai_api_key == config.openai_api_key
get_preferred_ai_provider == config.preferred_ai_provider
is_ai_analysis_enabled == config.enable_ai_analysis

\* dict.get(path): None when the key is absent.
CacheLookup(c, path) == IF path \in DOMAIN c THEN c[path] ELSE None

\* c[path] = result
CachePut(c, path, result) ==
  [k \in (DOMAIN c) \cup {path} |-> IF k = path THEN result ELSE c[k]]

get_cached_analysis(path) ==
  IF ~config.cache_ai_results THEN None ELSE CacheLookup(cache, path)

\* The cache after cache_analysis(path, result).
cache_analysis(path, result) ==
  IF config.cache_ai_results THEN CachePut(cache, path, result) ELSE cache

\* The cache after clear_cache().
clear_cache == << >>

(***************************************************************************)
(* safety_analysis.get_safety_info                                         *)
(***************************************************************************)

\* The indices of the rules whose normalized pattern matches.
MatchingRules(normalized_path) ==
  { i \in 1..Len(PREDEFINED_RULES) :
      fnmatch(normalized_path, normalize_path(PREDEFINED_RULES[i].pattern)) }

\* for pattern, info in PREDEFINED_RULES.items(): the first match returns.
match_predefined_rules(normalized_path) ==
  LET m == MatchingRules(normalized_path)
  IN IF m = {} THEN None
     ELSE LET i == CHOOSE i \in m : \A j \in m : i <= j
          IN [safety |-> PREDEFINED_RULES[i].safety, reason |-> PREDEFINED_RULES[i].reason]

\* normalize_path, the rule table and the heuristic are fixed functions of
\* the path: their values on the paths of the model are computed once.
Normalized == [p \in AllPaths |-> normalize_path(p)]
NormalizedPaths == { Normalized[p] : p \in AllPaths }
RuleAnswer == [np \in NormalizedPaths |-> match_predefined_rules(np)]

\* What a finished call hands back: the branch taken, the value returned,
\* the cache it leaves, the requests it sent to the provider.
Outcome(branch, ret, c, calls) ==
  [branch |-> branch, ret |-> ret, cache |-> c, provider_calls |-> calls]

\* get_safety_info with the two lookups in the other order: the rules
\* before the cache.
get_safety_info_rules_first(path) ==
  LET normalized_path == Normalized[path]
      cached_result == get_cached_analysis(normalized_path)
      rule == RuleAnswer[normalized_path]
  IN IF rule # None THEN Outcome("rule", rule, cache, 0)
     ELSE IF Truthy(cached_result) THEN Outcome("cached", cached_result, cache, 0)
     ELSE Outcome("grey", GreyVerdict, cache, 0)

\* get_safety_info storing the verdict of a rule in the cache, as
\* ai_analyze_path stores its result.
get_safety_info_write_through(path) ==
  LET normalized_path == Normalized[path]
      cached_result == get_cached_analysis(normalized_path)
      rule == RuleAnswer[normalized_path]
  IN IF Truthy(cached_result) THEN Outcome("cached", cached_result, cache, 0)
     ELSE IF rule # None THEN Outcome("rule", rule, cache_analysis(normalized_path, rule), 0)
     ELSE Outcome("grey", GreyVerdict, cache, 0)

\* get_safety_info taking the entry out of the cache (dict.pop) when it
\* returns it.
get_safety_info_pop(path) ==
  LET normalized_path == Normalized[path]
      cached_result == get_cached_analysis(normalized_path)
      rule == RuleAnswer[normalized_path]
  IN IF Truthy(cached_result)
     THEN Outcome("cached", cached_result,
                  [k \in (DOMAIN cache) \ {normalized_path} |-> cache[k]], 0)
     ELSE IF rule # None THEN Outcome("rule", rule, cache, 0)
     ELSE Outcome("grey", GreyVerdict, cache, 0)

\* get_safety_info: the cache, then the rules, then grey.  It returns and
\* nothing else: the cache it leaves is the cache it found.
get_safety_info(path) ==
  LET normalized_path == Normalized[path]
      cached_result == get_cached_analysis(normalized_path)
      rule == RuleAnswer[normalized_path]
  IN IF Truthy(cached_result) THEN Outcome("cached", cached_result, cache, 0)
     ELSE IF rule # None THEN Outcome("rule", rule, cache, 0)
     ELSE Outcome("grey", GreyVerdict, cache, 0)

(***************************************************************************)
(* safety_analysis._fallback_heuristic_analysis                            *)
(***************************************************************************)
safe_patterns ==
  {"cache", "temp", "tmp", "log", ".ds_store", "thumbs.db", ".localized", "desktop.ini", "icon\r"}
safe_extensions == {".tmp", ".cache", ".log", ".bak", ".old", ".orig"}
caution_patterns == {"config", "pref", "setting", "preference", "profile"}
danger_patterns == {"system", "kernel", "driver", "boot", "recovery", "firmware"}

HeuristicSuffix == " Add an API Key in Settings for AI analysis"

\* The heuristic with its groups in another order: the dangerous names
\* before the safe ones.
_fallback_heuristic_analysis_danger_first(path) ==
  LET name == Lower(basename(path))
  IN IF \E pattern \in danger_patterns : Contains(name, pattern)
     THEN [safety |-> "red",
           reason |-> "Heuristic Analysis: System-related files. Not recommended for deletion." \o HeuristicSuffix]
     ELSE IF \E pattern \in safe_patterns : Contains(name, pattern)
     THEN [safety |-> "green",
           reason |-> "Heuristic Analysis: Appears to be temporary/cache files. Likely safe to delete." \o HeuristicSuffix]
     ELSE IF \E ext \in safe_extensions : EndsWith(name, ext)
     THEN [safety |-> "green",
           reason |-> "Heuristic Analysis: Temporary file extension. Likely safe to delete." \o HeuristicSuffix]
     ELSE IF \E pattern \in caution_patterns : Contains(name, pattern)
     THEN [safety |-> "orange",
           reason |-> "Heuristic Analysis: Configuration or preference files. Deleting may affect application behavior." \o HeuristicSuffix]
     ELSE [safety |-> "orange",
           reason |-> "Heuristic Analysis: Unknown file type. Exercise caution when deleting." \o HeuristicSuffix]

_fallback_heuristic_analysis(path) ==
  LET name == Lower(basename(path))
  IN IF \E pattern \in safe_patterns : Contains(name, pattern)
     THEN [safety |-> "green",
           reason |-> "Heuristic Analysis: Appears to be temporary/cache files. Likely safe to delete." \o HeuristicSuffix]
     ELSE IF \E ext \in safe_extensions : EndsWith(name, ext)
     THEN [safety |-> "green",
           reason |-> "Heuristic Analysis: Temporary file extension. Likely safe to delete." \o HeuristicSuffix]
     ELSE IF \E pattern \in caution_patterns : Contains(name, pattern)
     THEN [safety |-> "orange",
           reason |-> "Heuristic Analysis: Configuration or preference files. Deleting may affect application behavior." \o HeuristicSuffix]
     ELSE IF \E pattern \in danger_patterns : Contains(name, pattern)
     THEN [safety |-> "red",
           reason |-> "Heuristic Analysis: System-related files. Not recommended for deletion." \o HeuristicSuffix]
     ELSE [safety |-> "orange",
           reason |-> "Heuristic Analysis: Unknown file type. Exercise caution when deleting." \o HeuristicSuffix]

HeuristicAnswer == [np \in NormalizedPaths |-> _fallback_heuristic_analysis(np)]

(***************************************************************************)
(* The provider boundary.  A call to the provider either raises (network   *)
(* error, timeout, quota) or returns a text, which is JSON or not, a JSON  *)
(* object or not, with or without the keys "safety" and "reason".          *)
(***************************************************************************)
Raises == [raises |-> TRUE, json |-> FALSE, dict |-> FALSE, keys |-> {}, safety |-> "", reason |-> ""]
NotJson == [raises |-> FALSE, json |-> FALSE, dict |-> FALSE, keys |-> {}, safety |-> "", reason |-> ""]
JsonList == [raises |-> FALSE, json |-> TRUE, dict |-> FALSE, keys |-> {}, safety |-> "", reason |-> ""]
JsonNoReason ==
  [raises |-> FALSE, json |-> TRUE, dict |-> TRUE, keys |-> {"safety"}, safety |-> "green", reason |-> ""]
JsonVerdict(tier) ==
  [raises |-> FALSE, json |-> TRUE, dict |-> TRUE, keys |-> {"safety", "reason"},
   safety |-> tier, reason |-> "says the provider"]

\* The tiers a provider's answer names in the model: two of the three it is
\* asked for, and one it is not asked for.
ResponseTiers == {"green", "red", "grey"}

ProviderResponses ==
  {Raises, NotJson, JsonList, JsonNoReason} \cup { JsonVerdict(t) : t \in ResponseTiers }

\* An exception propagating out of a call.
Raised == [raised |-> TRUE]

\* The try block _analyze_with_gemini and _analyze_with_openai both end
\* with: json.loads, the format check, the "AI Analysis: " prefix.
parse_provider_response(response) ==
  IF response.raises THEN Raised
  ELSE IF ~response.json THEN Raised                 \* json.JSONDecodeError
  ELSE IF ~response.dict \/ "safety" \notin response.keys \/ "reason" \notin response.keys
       THEN Raised                                   \* ValueError("Invalid response format")
  ELSE [safety |-> response.safety, reason |-> "AI Analysis: " \o response.reason]

\* The checks of _analyze_with_gemini / _analyze_with_openai that raise
\* before any request is sent.
gemini_request_is_sent == available.gemini /\ get_gemini_api_key # ""
openai_request_is_sent == available.openai /\ get_openai_api_key # ""

_analyze_with_gemini(response) ==
  IF ~gemini_request_is_sent THEN Raised ELSE parse_provider_response(response)

_analyze_with_openai(response) ==
  IF ~openai_request_is_sent THEN Raised ELSE parse_provider_response(response)

\* config.AI_CONFIG: the timeout and the retry count it declares.
AI_CONFIG == [enabled |-> TRUE, provider |-> "gemini", timeout |-> 10, max_retries |-> 3,
              fallback_to_heuristic |-> TRUE]

(***************************************************************************)
(* safety_analysis.ai_analyze_path, in the two parts its blocking provider *)
(* call divides it into.  NoProvider is force_provider=None, which is what *)
(* every caller of the repository passes.                                  *)
(***************************************************************************)
NoProvider == ""

\* The call is waiting for the provider's answer.
Waiting == [branch |-> "waiting"]

\* ai_analyze_path without the look at the cache it starts with, as it runs
\* when a provider is forced.
ai_analyze_path_begin_requery(path, force_provider) ==
  LET normalized_path == Normalized[path]
      provider == IF force_provider # NoProvider THEN force_provider
                  ELSE get_preferred_ai_provider
      api_key == IF provider = "gemini" THEN get_gemini_api_key
                 ELSE IF provider = "openai" THEN get_openai_api_key
                 ELSE ""
      heuristic == HeuristicAnswer[normalized_path]
      provider_again == get_preferred_ai_provider
  IN IF force_provider = NoProvider /\ ~is_ai_analysis_enabled
          THEN Outcome("disabled", heuristic, cache, 0)
     ELSE IF api_key = "" \/ IsBlank(api_key)
          THEN IF force_provider = NoProvider
               THEN Outcome("no_key", heuristic, cache, 0)
               ELSE Outcome("no_key_forced",
                            [safety |-> "grey", reason |-> "Error: No valid " \o provider \o " API key"],
                            cache, 0)
     ELSE IF provider_again = "gemini" /\ available.gemini
          THEN IF gemini_request_is_sent THEN Waiting
               ELSE Outcome("failed", heuristic, cache, 0)
     ELSE IF provider_again = "openai" /\ available.openai
          THEN IF openai_request_is_sent THEN Waiting
               ELSE Outcome("failed", heuristic, cache, 0)
     ELSE Outcome("unavailable", heuristic, cache_analysis(normalized_path, heuristic), 0)

\* Up to the provider's answer: either the call returns here or it sends one
\* request and waits.
ai_analyze_path_begin(path, force_provider) ==
  LET normalized_path == Normalized[path]
      cached_result == IF force_provider = NoProvider
                       THEN get_cached_analysis(normalized_path) ELSE None
      provider == IF force_provider # NoProvider THEN force_provider
                  ELSE get_preferred_ai_provider
      api_key == IF provider = "gemini" THEN get_gemini_api_key
                 ELSE IF provider = "openai" THEN get_openai_api_key
                 ELSE ""
      heuristic == HeuristicAnswer[normalized_path]
      \* line 104 reads the preferred provider again; force_provider is not used
      provider_again == get_preferred_ai_provider
  IN IF Truthy(cached_result) THEN Outcome("cached", cached_result, cache, 0)
     ELSE IF force_provider = NoProvider /\ ~is_ai_analysis_enabled
          THEN Outcome("disabled", heuristic, cache, 0)
     ELSE IF api_key = "" \/ IsBlank(api_key)
          THEN IF force_provider = NoProvider
               THEN Outcome("no_key", heuristic, cache, 0)
               ELSE Outcome("no_key_forced",
                            [safety |-> "grey", reason |-> "Error: No valid " \o provider \o " API key"],
                            cache, 0)
     ELSE IF provider_again = "gemini" /\ available.gemini
          THEN IF gemini_request_is_sent THEN Waiting
               ELSE Outcome("failed", heuristic, cache, 0)
     ELSE IF provider_again = "openai" /\ available.openai
          THEN IF openai_request_is_sent THEN Waiting
               ELSE Outcome("failed", heuristic, cache, 0)
     ELSE Outcome("unavailable", heuristic, cache_analysis(normalized_path, heuristic), 0)

\* ai_analyze_path answering a failed provider call with an error verdict,
\* as it answers a forced provider without a key, in place of the heuristic.
ai_analyze_path_end_error_verdict(path, response) ==
  LET normalized_path == Normalized[path]
      result == parse_provider_response(response)
  IN IF result = Raised
     THEN Outcome("failed", [safety |-> "grey", reason |-> "Error: AI analysis failed"], cache, 1)
     ELSE Outcome("ai", result, cache_analysis(normalized_path, result), 1)

\* From the provider's answer on: one request was sent, nothing is sent again.
ai_analyze_path_end(path, response) ==
  LET normalized_path == Normalized[path]
      result == parse_provider_response(response)
  IN IF result = Raised
     THEN Outcome("failed", HeuristicAnswer[normalized_path], cache, 1)
     ELSE Outcome("ai", result, cache_analysis(normalized_path, result), 1)

(***************************************************************************)
(* The disk and the strings shown to the user.                             *)
(***************************************************************************)

\* The directories that are there whatever they hold.
StandingDirs ==
  { "/", "/System", "/Applications", "/Users", "/Users/u", "/Users/u/Library",
    "/Users/u/Library/Caches", "/Users/u/Downloads", "/Users/u/Music", "/Users/u/Pictures",
    "/Users/u/coffee-cleaner" }

\* entry.is_dir(follow_symlinks=False), os.path.isdir
IsDir(p) ==
  \/ p \in {"/Applications/Install macOS Sonoma.app", "/Users/u/Library/Caches/App",
            "/Users/u/Music/b", "/Users/u/Movies"}
  \/ p \in NestedPaths
  \/ p \in StandingDirs

\* os.path.islink, and the file a link points at.
LinkTarget ==
  [p \in {"/Users/u/Music/s", "/Users/u/Music/b/l"} |-> "/Users/u/big"]

islink(p) == p \in DOMAIN LinkTarget

\* The files os.stat fails on with an OSError (no permission).
Unreadable == {"/Users/u/Music/b/x"}

\* st_size of the regular files.
FileBytes ==
  [p \in { q \in AllPaths : ~IsDir(q) /\ ~islink(q) } |->
     CASE p = "/Users/u/Downloads/old.log" -> 400
       [] p = "/Users/u/Downloads/notes" -> 300
       [] p = "/Users/u/Downloads/bootcamp" -> 200
       [] p = "/Applications/Install macOS Sonoma.app/InstallESD.dmg" -> 900
       [] p = "/Users/u/Music/a" -> 10
       [] p = "/Users/u/Music/b/c" -> 5
       [] p = "/Users/u/Music/b/x" -> 7
       [] p = "/Users/u/Pictures/1.png" -> 7
       [] p = "/Users/u/Pictures/2.png" -> 7
       [] OTHER -> 100]

\* The file os.stat(path) looks at: a symbolic link is followed.
StatTarget(path) == IF islink(path) THEN LinkTarget[path] ELSE path

\* os.path.getsize(path) raises OSError on the disk d: the file is not
\* there or cannot be read.
getsize_raises(path, d) ==
  path \notin d \/ StatTarget(path) \notin d \/ StatTarget(path) \in Unreadable

\* os.path.getsize(path): as os.stat follows a symbolic link, the size is
\* that of the file the link points at.
getsize(path) ==
  IF StatTarget(path) \in DOMAIN FileBytes THEN FileBytes[StatTarget(path)] ELSE 0

\* The filenames os.walk(path) yields on the disk d, joined to their
\* directories: everything below path that is not a directory.
WalkFiles(path, d) == { f \in d : StartsWith(f, path \o "/") /\ ~IsDir(f) }

\* The loop over os.walk: the sizes of the files that are not links and
\* whose size can be read.
RECURSIVE SumSizes(_, _)
SumSizes(files, d) ==
  IF files = {} THEN 0
  ELSE LET fp == CHOOSE f \in files : TRUE
           size == IF islink(fp) \/ getsize_raises(fp, d) THEN 0 ELSE getsize(fp)
       IN size + SumSizes(files \ {fp}, d)

\* quick_clean.directory_size
directory_size(path, d) == SumSizes(WalkFiles(path, d), d)

\* The size Quick Clean computes for an entry of the disk as it is at the
\* start.
Size ==
  [p \in DiskPaths |->
     IF IsDir(p) THEN directory_size(p, DiskPaths)
     ELSE IF getsize_raises(p, DiskPaths) THEN 0 ELSE getsize(p)]

\* os.getcwd(): the directory the program was started from, its checkout.
getcwd == "/Users/u/coffee-cleaner"

\* The absolute path the system calls resolve a path to.
abspath(path) ==
  IF StartsWith(path, "/") THEN path ELSE getcwd \o "/" \o path

\* os.scandir(path) raises OSError on the disk d for what is no directory.
scandir_raises(path, d) == ~(abspath(path) \in d \cup StandingDirs /\ IsDir(abspath(path)))

\* The paths the breadcrumbs give the directories that are there whatever
\* they hold: without the leading "/".
RelativeDirs == { SubSeq(p, 2, Len(p)) : p \in StandingDirs \ {"/"} }

\* The directory each path of the model lies in, computed once.
ParentOf ==
  [p \in AllPaths \cup StandingDirs \cup NestedPaths \cup RelativeDirs |-> dirname(p)]

\* parent_dir = os.path.dirname(current_path)
ParentDir(current_path) ==
  IF current_path \in DOMAIN ParentOf THEN ParentOf[current_path] ELSE dirname(current_path)

\* os.scandir(path) on the disk d: the entries of the directory.
scandir(path, d) == { p \in d \cup StandingDirs : ParentOf[p] = path /\ p # path }

Digits == <<"0", "1", "2", "3", "4", "5", "6", "7", "8", "9">>

\* str(n) of a natural number.
RECURSIVE str(_)
str(n) == IF n < 10 THEN Digits[n + 1] ELSE str(n \div 10) \o Digits[(n % 10) + 1]

\* sep.join(names)
RECURSIVE join(_, _)
join(sep, names) ==
  IF names = << >> THEN ""
  ELSE IF Len(names) = 1 THEN names[1]
  ELSE names[1] \o sep \o join(sep, Tail(names))

(***************************************************************************)
(* directory_cache: a dict, kept as the sequence of its items in insertion *)
(* order.                                                                  *)
(***************************************************************************)

\* MAX_CACHE_SIZE
MAX_CACHE_SIZE == 50

DcKeys(dc) == { dc[i].path : i \in 1..Len(dc) }

\* dc[path]
DcGet(dc, path) == dc[CHOOSE i \in 1..Len(dc) : dc[i].path = path].results

\* dc[path] = results: a key already present keeps its place.
DcPut(dc, path, results) ==
  IF path \in DcKeys(dc)
  THEN [i \in 1..Len(dc) |-> IF dc[i].path = path THEN [path |-> path, results |-> results] ELSE dc[i]]
  ELSE Append(dc, [path |-> path, results |-> results])

\* Remove the keys of a set.
DcDel(dc, paths) ==
  LET Keep(e) == e.path \notin paths
  IN SelectSeq(dc, Keep)

\* manage_cache removing the 10 entries inserted last.
manage_cache_newest(dc) ==
  IF Len(dc) > MAX_CACHE_SIZE THEN SubSeq(dc, 1, Len(dc) - 10) ELSE dc

\* manage_cache: over MAX_CACHE_SIZE entries, the 10 oldest go.
manage_cache(dc) ==
  IF Len(dc) > MAX_CACHE_SIZE THEN SubSeq(dc, 11, Len(dc)) ELSE dc

(***************************************************************************)
(* The disk analyzer's list.                                               *)
(***************************************************************************)

\* The ListTile of an item: its path in data, a trailing row that starts
\* with the checkbox, and the directory to scan on a click.
Tile(path) ==
  [data |-> path, trailing |-> TRUE, checkbox |-> FALSE,
   on_click |-> IF IsDir(path) THEN path ELSE ""]

\* The ".." tile: no trailing row.
UpTile(parent_dir) ==
  [data |-> "", trailing |-> FALSE, checkbox |-> FALSE, on_click |-> parent_dir]

\* The paths of the item tiles.
Listed == { scan_results_list[i].data : i \in { k \in 1..Len(scan_results_list) : scan_results_list[k].trailing } }

\* Where a result goes in a list sorted by size, largest first: behind
\* every result that is not smaller.
RECURSIVE InsertBySize(_, _)
InsertBySize(sorted, r) ==
  IF sorted = << >> THEN <<r>>
  ELSE IF Head(sorted).size >= r.size THEN <<Head(sorted)>> \o InsertBySize(Tail(sorted), r)
  ELSE <<r>> \o sorted

\* results.sort(key=lambda x: x["size"], reverse=True): the sort is stable,
\* results of the same size keep the order they have in the list.
RECURSIVE SortBySize(_)
SortBySize(results) ==
  IF results = << >> THEN << >>
  ELSE InsertBySize(SortBySize(SubSeq(results, 1, Len(results) - 1)), results[Len(results)])

\* The orders in which os.scandir may yield the entries of a directory.
ListingOrders(entries) ==
  { order \in [1..Cardinality(entries) -> entries] :
      \A i, j \in 1..Cardinality(entries) : i # j => order[i] # order[j] }

\* get_size_threaded of an entry on the disk d: None when the scan is
\* cancelled, the size 0 when the size cannot be read.
get_size_threaded(path, d, cancelled) ==
  IF cancelled THEN None
  ELSE [path |-> path,
        size |-> IF IsDir(path) THEN directory_size(path, d)
                 ELSE IF getsize_raises(path, d) THEN 0
                 ELSE getsize(path),
        is_dir |-> IsDir(path)]

\* display_scan_results: the tiles it builds.
DisplayedTiles(results, current_path) ==
  (IF current_path # "/" THEN <<UpTile(ParentDir(current_path))>> ELSE << >>)
    \o [i \in 1..Len(results) |-> Tile(results[i].path)]

\* The checked item tiles, in the order of the list.
SelectedControls(list) ==
  LET Checked(t) == t.trailing /\ t.checkbox
  IN SelectSeq(list, Checked)

(***************************************************************************)
(* Initial state: ConfigManager.__init__ loads user_config.json (or the    *)
(* defaults) and ai_analysis_cache.json (here: no cache file yet).         *)
(***************************************************************************)

\* What the user types into an API key field.
KeyInputs == {"", " sk-1 "}

\* str.strip() of a key input.
RECURSIVE Strip(_)
Strip(s) ==
  IF s # "" /\ IsBlank(CharAt(s, 1)) THEN Strip(StrFrom(s, 2))
  ELSE IF s # "" /\ IsBlank(CharAt(s, Len(s))) THEN Strip(SubSeq(s, 1, Len(s) - 1))
  ELSE s

Providers == {"gemini", "openai"}

\* The configurations user_config.json may hold.
Configs ==
  [gemini_api_key : {Strip(k) : k \in KeyInputs},
   openai_api_key : {Strip(k) : k \in KeyInputs},
   preferred_ai_provider : Providers,
   enable_ai_analysis : BOOLEAN,
   cache_ai_results : BOOLEAN]

\* Which of the optional provider libraries the imports found.
Availabilities == [gemini : BOOLEAN, openai : BOOLEAN]

NoCall ==
  [op |-> "none", path |-> "", branch |-> "", ret |-> None, provider_calls |-> 0, repeat |-> FALSE]

\* The record of a call that returned: repeat tells that the call before it
\* was the same call.
Returned(op, path, r) ==
  [op |-> op, path |-> path, branch |-> r.branch, ret |-> r.ret,
   provider_calls |-> r.provider_calls,
   repeat |-> (last.op = op /\ last.path = path)]

\* main(page): the controls and the dicts as they are built.
UiInit ==
  /\ delete_button = [disabled |-> TRUE, visible |-> FALSE]
  /\ confirmation_row = [visible |-> FALSE, selected_items |-> << >>]
  /\ scan_status_text = ""
  /\ scan_button = [disabled |-> FALSE]
  /\ cancel_button = [disabled |-> TRUE]
  /\ scan_thread_state = [cancelled |-> FALSE, current_path |-> HOME]
  /\ directory_cache = << >>
  /\ scan_threads = << >>
  /\ breadcrumb_row = << >>
  /\ current_result = [items |-> << >>, selected |-> {}]
  /\ clean_button = [disabled |-> TRUE]
  /\ run_analysis = << >>
  /\ run_delete = << >>

\* The classifier's state after start-up, with one item on display.
ClassifyInit ==
  /\ config \in Configs
  /\ cache = << >>
  /\ available \in Availabilities
  /\ analyzing = [p \in Analyzable |-> 0]
  /\ saving = << >>
  /\ last = NoCall
  /\ UiInit
  /\ \E p \in AiPaths : disk = DiskPaths \cup {p} /\ scan_results_list = <<Tile(p)>>

(***************************************************************************)
(* Operations.                                                             *)
(***************************************************************************)

\* A caller obtains get_safety_info(path).
Classify(path) ==
  LET r == get_safety_info(path)
  IN /\ cache' = r.cache
     /\ last' = Returned("classify", path, r)
     /\ UNCHANGED <<config, available, analyzing, saving, uiVars>>

\* create_ai_analyze_handler / create_quick_clean_ai_handler: the click
\* starts a thread that runs ai_analyze_path(path), here up to the point
\* where it returns or waits for the provider.
AiAnalyzeStart(path) ==
  LET r == ai_analyze_path_begin(path, NoProvider)
  IN IF r = Waiting
     THEN /\ path \in Listed
          /\ analyzing[path] < MaxAnalyzing
          /\ analyzing' = [analyzing EXCEPT ![path] = @ + 1]
          /\ UNCHANGED <<config, cache, available, saving, last, uiVars>>
     ELSE /\ path \in Listed
          /\ cache' = r.cache
          /\ last' = Returned("assist", path, r)
          /\ UNCHANGED <<config, available, analyzing, saving, uiVars>>

\* The provider answers (or fails) and ai_analyze_path runs to its return.
AiAnalyzeReturn(path, response) ==
  /\ analyzing[path] > 0
  /\ LET r == ai_analyze_path_end(path, response)
     IN /\ cache' = r.cache
        /\ last' = Returned("assist", path, r)
  /\ analyzing' = [analyzing EXCEPT ![path] = @ - 1]
  /\ UNCHANGED <<config, available, saving, uiVars>>

\* settings_ui.save_settings: the four setters, in order.
SaveSettings(gemini_key, openai_key, provider, enabled) ==
  /\ config' = [config EXCEPT
                  !.gemini_api_key = Strip(gemini_key),
                  !.openai_api_key = Strip(openai_key),
                  !.preferred_ai_provider = IF provider \in {"gemini", "openai"} THEN provider ELSE @,
                  !.enable_ai_analysis = enabled]
  /\ last' = NoCall
  /\ UNCHANGED <<cache, available, analyzing, saving, uiVars>>

\* settings_ui.clear_cache
ClearCache ==
  /\ cache' = clear_cache
  /\ last' = NoCall
  /\ UNCHANGED <<config, available, analyzing, saving, uiVars>>

\* The program is quit and started again: the daemon threads are gone,
\* ConfigManager.__init__ reads user_config.json, which holds what
\* save_settings wrote and a "cache_ai_results" the user may have edited (no
\* setter writes it), and ai_analysis_cache.json, which holds what was
\* written through.
Restart ==
  /\ \E flag \in BOOLEAN : config' = [config EXCEPT !.cache_ai_results = flag]
  /\ analyzing' = [p \in Analyzable |-> 0]
  /\ saving' = << >>
  /\ last' = NoCall
  /\ UNCHANGED <<cache, available, uiVars>>

\* The classifier applied to any path, the cache filled by the analysis of
\* the item on display, with the settings as loaded.
ClassifyNext ==
  \/ \E path \in Paths : Classify(path)
  \/ \E path \in AiPaths : AiAnalyzeStart(path)
  \/ \E path \in AiPaths, response \in ProviderResponses : AiAnalyzeReturn(path, response)
  \/ ClearCache
  \/ Restart

SpecClassify == ClassifyInit /\ [][ClassifyNext]_vars

\* The assisted analysis of the item on display under every setting.
AssistNext ==
  \/ \E path \in Listed : Classify(path)
  \/ \E path \in AiPaths : AiAnalyzeStart(path)
  \/ \E path \in AiPaths, response \in ProviderResponses : AiAnalyzeReturn(path, response)
  \/ \E gk \in KeyInputs, ok \in KeyInputs, provider \in Providers, enabled \in BOOLEAN :
       SaveSettings(gk, ok, provider, enabled)
  \/ ClearCache
  \/ Restart

SpecAssist == ClassifyInit /\ [][AssistNext]_vars

(***************************************************************************)
(* The disk analyzer: scanning.                                            *)
(***************************************************************************)

\* Scan threads that may run at the same time.
MaxScanThreads == 1

\* A step leaves no more scan threads running than that.
ScanThreadsBounded == Len(scan_threads') <= MaxScanThreads

\* A scan_directory_thread that was just started: what it is to scan, where
\* it is, the entries it listed, and, in the order of the listing, the
\* futures of the pool with their results, the index of the loop over them
\* and the results it collected.
NewScanThread(path) ==
  [selected_path |-> path, pc |-> "start", entries |-> {}, futures |-> << >>, i |-> 0,
   results |-> << >>]

\* The directories the user picks in the dropdown, and its "Clear Cache".
DropdownChoices == {"/Users/u/Downloads", "clear_cache"}

\* os.path.join(*parts), no part starting with a "/": a part is appended
\* behind a "/", which is left out behind an empty path and behind a "/".
RECURSIVE path_join(_)
path_join(parts) ==
  IF Len(parts) = 1 THEN parts[1]
  ELSE LET path == path_join(SubSeq(parts, 1, Len(parts) - 1))
       IN IF path = "" \/ EndsWith(path, "/") THEN path \o parts[Len(parts)]
          ELSE path \o "/" \o parts[Len(parts)]

\* The loop of update_breadcrumbs(path): the path each breadcrumb scans on a
\* click.
breadcrumb_paths(path) ==
  LET parts == IF path = "/" THEN <<"">> ELSE SplitSlash(path)
  IN [i \in 1..Len(parts) |->
        IF i = 1 /\ parts[1] = "" THEN "/" ELSE path_join(SubSeq(parts, 1, i))]

\* The directories that are there whatever they hold, and the paths their
\* breadcrumbs scan.
CrumbDirs ==
  StandingDirs
    \cup UNION { { breadcrumb_paths(dir)[i] : i \in 1..Len(breadcrumb_paths(dir)) } :
                 dir \in StandingDirs }

\* The breadcrumbs of these directories, computed once.
BreadcrumbPathsOfDirs == [path \in CrumbDirs |-> breadcrumb_paths(path)]

\* update_breadcrumbs(path): the path each breadcrumb scans on a click.
update_breadcrumbs(path) ==
  IF path \in CrumbDirs THEN BreadcrumbPathsOfDirs[path] ELSE breadcrumb_paths(path)

\* A reset_scan_ui that leaves the cancelled flag as it finds it.
reset_scan_ui_keeping_cancelled(state, status) ==
  [state |-> state,
   status |-> IF state.cancelled THEN "Scan cancelled." ELSE status]

\* reset_scan_ui, as a change of the state (cancelled flag, status text).
reset_scan_ui(state, status) ==
  [state |-> [state EXCEPT !.cancelled = FALSE],
   status |-> IF state.cancelled THEN "Scan cancelled." ELSE status]

\* scan_and_display(path), entered with the directory cache dc and the
\* delete button db: a cached listing is displayed at once, otherwise the
\* list is cleared and a scan thread is started.
scan_and_display(path, dc, db) ==
  /\ directory_cache' = dc
  /\ IF path \in DcKeys(dc)
     THEN /\ scan_thread_state' = [scan_thread_state EXCEPT !.current_path = path]
          /\ scan_results_list' = DisplayedTiles(DcGet(dc, path), path)
          /\ breadcrumb_row' = update_breadcrumbs(path)
          /\ delete_button' = [db EXCEPT !.visible = FALSE]
          /\ scan_status_text' =
               "Loaded cached scan of " \o path \o ". Found " \o str(Len(DcGet(dc, path))) \o " items."
          /\ UNCHANGED <<scan_button, cancel_button, scan_threads>>
     ELSE /\ scan_button' = [disabled |-> TRUE]
          /\ cancel_button' = [disabled |-> FALSE]
          /\ scan_status_text' = "Scanning " \o path \o "..."
          /\ scan_results_list' = << >>
          /\ delete_button' = db
          /\ scan_threads' = Append(scan_threads, NewScanThread(path))
          /\ UNCHANGED <<scan_thread_state, breadcrumb_row>>

\* The sequence without its i-th element.
RemoveAt(seq, i) == SubSeq(seq, 1, i - 1) \o SubSeq(seq, i + 1, Len(seq))

\* scan_directory_handler: the Scan button.
ScanDirectoryHandler(selected_path) ==
  /\ ~scan_button.disabled
  /\ IF selected_path = "clear_cache"
     THEN /\ directory_cache' = << >>
          /\ UNCHANGED <<scan_results_list, delete_button, scan_status_text, scan_button,
                         cancel_button, scan_thread_state, scan_threads, breadcrumb_row>>
     ELSE scan_and_display(selected_path, directory_cache, delete_button)
  /\ last' = NoCall
  /\ UNCHANGED <<classifierVars, disk, confirmation_row, quickCleanVars>>

\* The list after a listing that failed, without the ".." tile.
error_tiles_without_parent(selected_path) == << >>

\* The list after a listing that failed: cleared, and the ".." tile added
\* unless the path is the root.
error_tiles(selected_path) ==
  IF selected_path # "/" THEN <<UpTile(ParentDir(selected_path))>> ELSE << >>

\* scan_directory_thread up to the listing: the flag is lowered, the current
\* path set, and os.scandir either lists the directory or raises OSError,
\* which ends the thread through reset_scan_ui.
ScanThreadList(i, listing_fails) ==
  /\ i \in 1..Len(scan_threads)
  /\ scan_threads[i].pc = "start"
  /\ LET selected_path == scan_threads[i].selected_path
         state == [cancelled |-> FALSE, current_path |-> selected_path]
     IN IF listing_fails \/ scandir_raises(selected_path, disk)
        THEN LET r == reset_scan_ui(state, "Error: Operation not permitted")
             IN /\ scan_thread_state' = r.state
                /\ scan_status_text' = r.status
                /\ scan_results_list' = error_tiles(selected_path)
                /\ breadcrumb_row' = update_breadcrumbs(selected_path)
                /\ scan_button' = [disabled |-> FALSE]
                /\ cancel_button' = [disabled |-> TRUE]
                /\ scan_threads' = RemoveAt(scan_threads, i)
        ELSE /\ scan_thread_state' = state
             /\ scan_threads' = [scan_threads EXCEPT ![i].pc = "sizing",
                                                     ![i].entries = scandir(selected_path, disk)]
             /\ UNCHANGED <<scan_results_list, scan_status_text, scan_button, cancel_button,
                            breadcrumb_row>>
  /\ last' = NoCall
  /\ UNCHANGED <<classifierVars, disk, delete_button, confirmation_row, directory_cache, quickCleanVars>>

\* The entries the i-th scan thread listed.
EntriesOf(i) == IF i \in 1..Len(scan_threads) THEN scan_threads[i].entries ELSE {}

\* The results of the sizing tasks that returned one.
NotNone(results) ==
  LET IsResult(r) == r # None
  IN SelectSeq(results, IsResult)

\* scan_directory_thread from the sizes on, run without a step of another
\* thread in between, the entries having been listed in the given order:
\* unless cancelled, the sorted results are cached and displayed; then
\* reset_scan_ui.
ScanThreadFinish(i, order) ==
  /\ i \in 1..Len(scan_threads)
  /\ scan_threads[i].pc = "sizing"
  /\ order \in ListingOrders(scan_threads[i].entries)
  /\ LET selected_path == scan_threads[i].selected_path
         results ==
           SortBySize(NotNone([k \in 1..Len(order) |->
                                 get_size_threaded(order[k], disk, scan_thread_state.cancelled)]))
         displayed == ~scan_thread_state.cancelled
         r == reset_scan_ui(scan_thread_state,
                            IF displayed
                            THEN "Scan of " \o selected_path \o " complete. Found "
                                   \o str(Len(results)) \o " items."
                            ELSE scan_status_text)
     IN /\ IF displayed
           THEN /\ directory_cache' = manage_cache(DcPut(directory_cache, selected_path, results))
                /\ scan_results_list' = DisplayedTiles(results, selected_path)
                /\ breadcrumb_row' = update_breadcrumbs(selected_path)
                /\ delete_button' = [delete_button EXCEPT !.visible = FALSE]
           ELSE UNCHANGED <<directory_cache, scan_results_list, breadcrumb_row, delete_button>>
        /\ scan_thread_state' = r.state
        /\ scan_status_text' = r.status
  /\ scan_button' = [disabled |-> FALSE]
  /\ cancel_button' = [disabled |-> TRUE]
  /\ scan_threads' = RemoveAt(scan_threads, i)
  /\ last' = NoCall
  /\ UNCHANGED <<classifierVars, disk, confirmation_row, quickCleanVars>>

\* cancel_scan_handler: the Cancel button.
CancelScanHandler ==
  /\ ~cancel_button.disabled
  /\ scan_thread_state' = [scan_thread_state EXCEPT !.cancelled = TRUE]
  /\ scan_status_text' = "Cancelling..."
  /\ last' = NoCall
  /\ UNCHANGED <<classifierVars, disk, scan_results_list, delete_button, confirmation_row,
                 scan_button, cancel_button, directory_cache, scan_threads, breadcrumb_row,
                 quickCleanVars>>

(***************************************************************************)
(* The disk analyzer: selecting and deleting.                              *)
(***************************************************************************)

\* check_delete_button_state over a list: the button is shown while
\* something is checked and enabled while none of it is red.
check_delete_button_state(list) ==
  LET selected == SelectedControls(list)
      has_selection == selected # << >>
      has_unsafe == \E i \in 1..Len(selected) : get_safety_info(selected[i].data).ret.safety = "red"
  IN [disabled |-> ~(has_selection /\ ~has_unsafe), visible |-> has_selection]

\* The checkbox of a tile is clicked: its value flips and on_change runs
\* check_delete_button_state.
CheckboxChange(i) ==
  /\ i \in 1..Len(scan_results_list)
  /\ scan_results_list[i].trailing
  /\ scan_results_list' = [scan_results_list EXCEPT ![i].checkbox = ~@]
  /\ delete_button' = check_delete_button_state(scan_results_list')
  /\ last' = NoCall
  /\ UNCHANGED <<classifierVars, disk, confirmation_row, scan_status_text, scan_button,
                 cancel_button, scan_thread_state, directory_cache, scan_threads, breadcrumb_row,
                 quickCleanVars>>

\* The loop of simple_delete_selected_handler: every checked item with the
\* tier get_safety_info gives it now.
selected_items_of(list) ==
  LET selected == SelectedControls(list)
  IN [i \in 1..Len(selected) |->
        [path |-> selected[i].data, safety |-> get_safety_info(selected[i].data).ret.safety]]

\* The first red one among them only: the loop leaving at the first red
\* item, as the loop of check_delete_button_state does.
unsafe_items_of_first(selected_items) ==
  LET Red(item) == item.safety = "red"
      red == SelectSeq(selected_items, Red)
  IN IF red = << >> THEN << >> ELSE <<red[1].path>>

\* The red ones among them.
unsafe_items_of(selected_items) ==
  LET Red(item) == item.safety = "red"
      red == SelectSeq(selected_items, Red)
  IN [i \in 1..Len(red) |-> red[i].path]

\* show_confirmation_ui: the row is shown with its buttons bound to the
\* items, the delete button hidden.
show_confirmation_ui(selected_items) ==
  /\ confirmation_row' = [visible |-> TRUE, selected_items |-> selected_items]
  /\ delete_button' = [delete_button EXCEPT !.visible = FALSE]
  /\ UNCHANGED scan_status_text

\* What simple_delete_selected_handler does with the items it collected.
simple_delete_selected_handler(selected_items, unsafe_items) ==
  IF selected_items = << >>
  THEN /\ scan_status_text' = "No items selected for deletion."
       /\ UNCHANGED <<confirmation_row, delete_button>>
  ELSE IF unsafe_items # << >>
  THEN /\ scan_status_text' =
            "Cannot delete unsafe items (red): "
              \o join(", ", [i \in 1..Len(unsafe_items) |-> basename(unsafe_items[i])])
       /\ UNCHANGED <<confirmation_row, delete_button>>
  ELSE show_confirmation_ui(selected_items)

\* "Delete Selected" is clicked.
SimpleDeleteSelected ==
  /\ delete_button.visible
  /\ ~delete_button.disabled
  /\ LET selected_items == selected_items_of(scan_results_list)
     IN simple_delete_selected_handler(selected_items, unsafe_items_of(selected_items))
  /\ last' = NoCall
  /\ UNCHANGED <<classifierVars, disk, scan_results_list, scan_button, cancel_button,
                 scan_thread_state, directory_cache, scan_threads, breadcrumb_row, quickCleanVars>>

\* What a loop over the paths removes: each path is removed on its own, a
\* failure (the path is gone, or the removal raises) does not stop the loop.
\* shutil.rmtree removes what is below the path with it.
Removed(paths, failing, d) ==
  LET gone == { paths[i] : i \in { k \in 1..Len(paths) : paths[k] \in d /\ paths[k] \notin failing } }
  IN { q \in d : \E p \in gone : q = p \/ StartsWith(q, p \o "/") }

\* The body of the loop of perform_deletion run on one item that raises
\* whenever an item before it has raised: the loop given up at the first
\* failure.
delete_item_aborting(acc, item, failing) ==
  IF acc.error_count > 0 THEN acc
  ELSE LET path == item.path
           filename == basename(path)
           raises == path \notin acc.disk \/ path \in failing
       IN IF raises
          THEN [acc EXCEPT !.deletion_results = Append(@, "Failed to delete " \o filename),
                           !.error_count = @ + 1]
          ELSE [acc EXCEPT !.disk = { q \in @ : q # path /\ ~StartsWith(q, path \o "/") },
                           !.deletion_results = Append(@, "Deleted: " \o filename),
                           !.deleted_count = @ + 1]

\* The body of the loop of perform_deletion, run on one item: shutil.rmtree
\* or os.remove under try; the removal raises for a path that is gone and
\* for a failing one, which is then left as it is.  The marks that lead
\* the lines of deletion_results and the text of the exception are left out.
delete_item(acc, item, failing) ==
  LET path == item.path
      filename == basename(path)
      raises == path \notin acc.disk \/ path \in failing
  IN IF raises
     THEN [acc EXCEPT !.deletion_results = Append(@, "Failed to delete " \o filename),
                      !.error_count = @ + 1]
     ELSE [acc EXCEPT !.disk = { q \in @ : q # path /\ ~StartsWith(q, path \o "/") },
                      !.deletion_results = Append(@, "Deleted: " \o filename),
                      !.deleted_count = @ + 1]

\* for item in selected_items, from the locals as they are in acc.
RECURSIVE deletion_loop(_, _, _)
deletion_loop(acc, selected_items, failing) ==
  IF selected_items = << >> THEN acc
  ELSE deletion_loop(delete_item(acc, Head(selected_items), failing), Tail(selected_items), failing)

\* The locals of perform_deletion after its loop over selected_items on the
\* disk d.
deletion_outcome(selected_items, failing, d) ==
  deletion_loop([disk |-> d, deletion_results |-> << >>, deleted_count |-> 0, error_count |-> 0],
                selected_items, failing)

\* main.perform_deletion: the removals, the invalidation of the current
\* directory's cache entry, and the refresh through scan_and_display.
perform_deletion(selected_items, failing, db) ==
  LET current_path == scan_thread_state.current_path
  IN /\ disk' = deletion_outcome(selected_items, failing, disk).disk
     /\ scan_and_display(current_path, DcDel(directory_cache, {current_path}), db)

\* perform_deletion has returned deleted_count, error_count; kept with them
\* are the deletion_results it had built.
Deleted(selected_items, failing) ==
  LET out == deletion_outcome(selected_items, failing, disk)
  IN [op |-> "perform_deletion", path |-> "", branch |-> "",
      ret |-> [deleted_count |-> out.deleted_count, error_count |-> out.error_count,
               deletion_results |-> out.deletion_results],
      provider_calls |-> 0, repeat |-> FALSE]

\* confirm_deletion: "Yes, Delete".
ConfirmDeletion(failing) ==
  /\ confirmation_row.visible
  /\ confirmation_row' = [confirmation_row EXCEPT !.visible = FALSE]
  /\ perform_deletion(confirmation_row.selected_items, failing,
                      [delete_button EXCEPT !.visible = TRUE])
  /\ last' = Deleted(confirmation_row.selected_items, failing)
  /\ UNCHANGED <<classifierVars, quickCleanVars>>

\* cancel_deletion: "Cancel".
CancelDeletion ==
  /\ confirmation_row.visible
  /\ confirmation_row' = [confirmation_row EXCEPT !.visible = FALSE]
  /\ delete_button' = [delete_button EXCEPT !.visible = TRUE]
  /\ last' = NoCall
  /\ UNCHANGED <<classifierVars, disk, scan_results_list, scan_status_text, scan_button,
                 cancel_button, scan_thread_state, directory_cache, scan_threads, breadcrumb_row,
                 quickCleanVars>>

(***************************************************************************)
(* Quick Clean.                                                            *)
(***************************************************************************)

\* Threads of a kind (run_analysis, run_delete) that may run at the same time.
MaxQuickCleanThreads == 1

USER_CACHE == "user_cache"
MACOS_INSTALLERS == "macos_installers"

\* selected_categories(): the checked categories, in the order of the code.
CategoryChoices == { << >>, <<USER_CACHE>>, <<MACOS_INSTALLERS>>, <<USER_CACHE, MACOS_INSTALLERS>> }

\* The items of a set of paths, largest first.
RECURSIVE ItemsOf(_, _)
ItemsOf(paths, category) ==
  IF paths = {} THEN << >>
  ELSE LET top == CHOOSE p \in paths : \A q \in paths : Size[q] <= Size[p]
       IN <<[path |-> top, size |-> Size[top], category |-> category]>>
            \o ItemsOf(paths \ {top}, category)

\* gather_user_cache: the entries of ~/Library/Caches that have a size.
gather_user_cache(d) ==
  ItemsOf({ p \in scandir(HOME \o "/Library/Caches", d) : Size[p] > 0 }, USER_CACHE)

\* gather_macos_installers: the "Install macOS*.app" entries of /Applications.
gather_macos_installers(d) ==
  ItemsOf({ p \in scandir("/Applications", d) :
              /\ StartsWith(basename(p), "Install macOS")
              /\ EndsWith(basename(p), ".app")
              /\ Size[p] > 0 }, MACOS_INSTALLERS)

\* GATHERERS[cat]()
GATHERERS(cat, d) ==
  IF cat = USER_CACHE THEN gather_user_cache(d) ELSE gather_macos_installers(d)

\* update_summary: Clean is enabled while the selected items have a size.
update_summary(result) ==
  [disabled |-> ~\E i \in 1..Len(result.items) :
                   result.items[i].path \in result.selected /\ result.items[i].size > 0]

\* analyze_files: the result is emptied and run_analysis started.
AnalyzeFiles(cats) ==
  /\ current_result' = [items |-> << >>, selected |-> {}]
  /\ clean_button' = [disabled |-> TRUE]
  /\ IF cats = << >>
     THEN UNCHANGED run_analysis
     ELSE /\ Len(run_analysis) < MaxQuickCleanThreads
          /\ run_analysis' = Append(run_analysis, cats)
  /\ last' = NoCall
  /\ UNCHANGED <<classifierVars, disk, analyzerVars, run_delete>>

\* run_analysis, one category of analyze_quick_clean_iter: its items are
\* added to the result and the summary is updated.
RunAnalysis(i) ==
  /\ i \in 1..Len(run_analysis)
  /\ LET cats == run_analysis[i]
         result == [current_result EXCEPT !.items = @ \o GATHERERS(Head(cats), disk)]
     IN /\ current_result' = result
        /\ clean_button' = update_summary(result)
        /\ run_analysis' = IF Len(cats) = 1 THEN RemoveAt(run_analysis, i)
                           ELSE [run_analysis EXCEPT ![i] = Tail(cats)]
  /\ last' = NoCall
  /\ UNCHANGED <<classifierVars, disk, analyzerVars, run_delete>>

\* make_item_toggle: the checkbox of an item is clicked.
ItemToggle(path) ==
  /\ \E i \in 1..Len(current_result.items) : current_result.items[i].path = path
  /\ LET result == [current_result EXCEPT
                      !.selected = IF path \in @ THEN @ \ {path} ELSE @ \cup {path}]
     IN /\ current_result' = result
        /\ clean_button' = update_summary(result)
  /\ last' = NoCall
  /\ UNCHANGED <<classifierVars, disk, analyzerVars, run_analysis, run_delete>>

\* clean_files: the selected paths are handed to a run_delete thread.
CleanFiles ==
  /\ ~clean_button.disabled
  /\ LET Selected(item) == item.path \in current_result.selected
         selected == SelectSeq(current_result.items, Selected)
         selected_items == [i \in 1..Len(selected) |-> selected[i].path]
     IN IF selected_items = << >>
        THEN UNCHANGED run_delete
        ELSE /\ Len(run_delete) < MaxQuickCleanThreads
             /\ run_delete' = Append(run_delete, selected_items)
  /\ last' = NoCall
  /\ UNCHANGED <<classifierVars, disk, analyzerVars, current_result, clean_button, run_analysis>>

\* deletion.perform_deletion(paths), which quick_clean.py and main.py import:
\* each path is removed on its own, and the entries of the directory cache
\* for the directories of the removed paths are invalidated.
deletion_perform_deletion(paths, failing) ==
  LET removed == Removed(paths, failing, disk)
  IN /\ disk' = disk \ removed
     /\ directory_cache' = DcDel(directory_cache, { dirname(p) : p \in removed })

\* run_delete: the deletion, then Clean is disabled and the list cleared.
RunDelete(i, failing) ==
  /\ i \in 1..Len(run_delete)
  /\ deletion_perform_deletion(run_delete[i], failing)
  /\ clean_button' = [disabled |-> TRUE]
  /\ run_delete' = RemoveAt(run_delete, i)
  /\ last' = NoCall
  /\ UNCHANGED <<classifierVars, scan_results_list, delete_button, confirmation_row,
                 scan_status_text, scan_button, cancel_button, scan_thread_state,
                 scan_threads, breadcrumb_row, current_result, run_analysis>>

(***************************************************************************)
(* Specifications of the two tabs, under the settings of a configured      *)
(* installation.                                                           *)
(***************************************************************************)

\* The paths whose AI icon the user clicks.
ClickedAiPaths == {"/Users/u/Downloads/bootcamp", "/Users/u/Downloads/notes"}

\* What the provider does with the requests about them: it fails, or it
\* answers that the path is unsafe.
ClickedResponses == {Raises, JsonVerdict("red")}

\* Removals that raise.
FailingChoices == {{}, {"/Users/u/Downloads/notes"}}

Init ==
  /\ config = [gemini_api_key |-> "sk-1", openai_api_key |-> "",
               preferred_ai_provider |-> "gemini", enable_ai_analysis |-> TRUE,
               cache_ai_results |-> TRUE]
  /\ cache = << >>
  /\ available = [gemini |-> TRUE, openai |-> FALSE]
  /\ analyzing = [p \in Analyzable |-> 0]
  /\ saving = << >>
  /\ last = NoCall
  /\ disk = DiskPaths
  /\ scan_results_list = << >>
  /\ UiInit

\* The disk analyzer with its AI icons.
Next ==
  \/ \E path \in ClickedAiPaths : AiAnalyzeStart(path)
  \/ \E path \in ClickedAiPaths, response \in ClickedResponses : AiAnalyzeReturn(path, response)
  \/ \E selected_path \in DropdownChoices :
       ScanDirectoryHandler(selected_path) /\ ScanThreadsBounded
  \/ \E i \in 1..MaxScanThreads, listing_fails \in BOOLEAN : ScanThreadList(i, listing_fails)
  \/ \E i \in 1..MaxScanThreads : \E order \in ListingOrders(EntriesOf(i)) : ScanThreadFinish(i, order)
  \/ CancelScanHandler
  \/ \E i \in 1..(Cardinality(DiskPaths) + 1) : CheckboxChange(i)
  \/ SimpleDeleteSelected
  \/ \E failing \in FailingChoices : ConfirmDeletion(failing) /\ ScanThreadsBounded
  \/ CancelDeletion

Spec == Init /\ [][Next]_vars

\* Quick Clean beside a disk analyzer that is scanning and deleting.
QuickCleanNext ==
  \/ \E cats \in CategoryChoices : AnalyzeFiles(cats)
  \/ \E i \in 1..MaxQuickCleanThreads : RunAnalysis(i)
  \/ \E path \in DiskPaths : ItemToggle(path)
  \/ CleanFiles
  \/ \E i \in 1..MaxQuickCleanThreads, failing \in FailingChoices : RunDelete(i, failing)
  \/ \E selected_path \in DropdownChoices :
       ScanDirectoryHandler(selected_path) /\ ScanThreadsBounded
  \/ \E i \in 1..MaxScanThreads : ScanThreadList(i, FALSE)
  \/ \E i \in 1..MaxScanThreads : \E order \in ListingOrders(EntriesOf(i)) : ScanThreadFinish(i, order)

SpecQuickClean == Init /\ [][QuickCleanNext]_vars

(***************************************************************************)
(* The disk analyzer: navigation.                                          *)
(***************************************************************************)

\* A tile of the list is clicked: a directory's tile and the ".." tile
\* call scan_and_display.
TileClick(i) ==
  /\ i \in 1..Len(scan_results_list)
  /\ scan_results_list[i].on_click # ""
  /\ scan_and_display(scan_results_list[i].on_click, directory_cache, delete_button)
  /\ last' = NoCall
  /\ UNCHANGED <<classifierVars, disk, confirmation_row, quickCleanVars>>

\* A breadcrumb is clicked.
BreadcrumbClick(i) ==
  /\ i \in 1..Len(breadcrumb_row)
  /\ scan_and_display(breadcrumb_row[i], directory_cache, delete_button)
  /\ last' = NoCall
  /\ UNCHANGED <<classifierVars, disk, confirmation_row, quickCleanVars>>

(***************************************************************************)
(* scan_directory_thread from the listing on, statement by statement, with *)
(* the tasks of its pool.                                                  *)
(***************************************************************************)

\* What a step of a scan thread leaves alone beside the analyzer's state.
scanFrame == <<classifierVars, disk, confirmation_row, quickCleanVars>>

\* A future of the pool: the entry its task sizes, where it is, its result.
Future(path) == [path |-> path, state |-> "pending", result |-> None]

\* executor.submit(get_size_threaded, entry) for the entries in the order
\* os.scandir yielded them.
ScanThreadSubmit(i, order) ==
  /\ i \in 1..Len(scan_threads)
  /\ scan_threads[i].pc = "sizing"
  /\ order \in ListingOrders(scan_threads[i].entries)
  /\ scan_threads' =
       [scan_threads EXCEPT ![i].futures = [k \in 1..Len(order) |-> Future(order[k])],
                            ![i].i = 1,
                            ![i].pc = IF order = << >> THEN "decide" ELSE "check"]
  /\ last' = NoCall
  /\ UNCHANGED <<scanFrame, scan_results_list, delete_button, scan_status_text, scan_button,
                 cancel_button, scan_thread_state, directory_cache, breadcrumb_row>>

\* A worker of the pool runs get_size_threaded for a pending future.
WorkerRun(i, k) ==
  /\ i \in 1..Len(scan_threads)
  /\ scan_threads[i].pc \in {"check", "result"}
  /\ k \in 1..Len(scan_threads[i].futures)
  /\ scan_threads[i].futures[k].state = "pending"
  /\ scan_threads' =
       [scan_threads EXCEPT
          ![i].futures[k] =
             [@ EXCEPT !.state = "done",
                       !.result = get_size_threaded(scan_threads[i].futures[k].path, disk,
                                                    scan_thread_state.cancelled)]]
  /\ last' = NoCall
  /\ UNCHANGED <<scanFrame, scan_results_list, delete_button, scan_status_text, scan_button,
                 cancel_button, scan_thread_state, directory_cache, breadcrumb_row>>

\* The head of the loop over the futures: when the scan is cancelled the
\* pending futures are cancelled and the loop is left.
ScanThreadCheck(i) ==
  /\ i \in 1..Len(scan_threads)
  /\ scan_threads[i].pc = "check"
  /\ scan_threads' =
       IF scan_thread_state.cancelled
       THEN [scan_threads EXCEPT
               ![i].futures = [k \in 1..Len(@) |->
                                 IF @[k].state = "pending" THEN [@[k] EXCEPT !.state = "cancelled"]
                                 ELSE @[k]],
               ![i].pc = "decide"]
       ELSE [scan_threads EXCEPT ![i].pc = "result"]
  /\ last' = NoCall
  /\ UNCHANGED <<scanFrame, scan_results_list, delete_button, scan_status_text, scan_button,
                 cancel_button, scan_thread_state, directory_cache, breadcrumb_row>>

\* future.result() of the loop: it waits for the task, and a result that is
\* not None is appended.
ScanThreadResult(i) ==
  /\ i \in 1..Len(scan_threads)
  /\ scan_threads[i].pc = "result"
  /\ LET t == scan_threads[i]
         future == t.futures[t.i]
     IN /\ future.state = "done"
        /\ scan_threads' =
             [scan_threads EXCEPT
                ![i].results = IF future.result # None THEN Append(@, future.result) ELSE @,
                ![i].i = @ + 1,
                ![i].pc = IF t.i = Len(t.futures) THEN "decide" ELSE "check"]
  /\ last' = NoCall
  /\ UNCHANGED <<scanFrame, scan_results_list, delete_button, scan_status_text, scan_button,
                 cancel_button, scan_thread_state, directory_cache, breadcrumb_row>>

\* if not scan_thread_state["cancelled"]: the results are sorted.
ScanThreadDecide(i) ==
  /\ i \in 1..Len(scan_threads)
  /\ scan_threads[i].pc = "decide"
  /\ scan_threads' =
       IF scan_thread_state.cancelled
       THEN [scan_threads EXCEPT ![i].pc = "reset"]
       ELSE [scan_threads EXCEPT ![i].results = SortBySize(@), ![i].pc = "cache"]
  /\ last' = NoCall
  /\ UNCHANGED <<scanFrame, scan_results_list, delete_button, scan_status_text, scan_button,
                 cancel_button, scan_thread_state, directory_cache, breadcrumb_row>>

\* directory_cache[selected_path] = results
ScanThreadCache(i) ==
  /\ i \in 1..Len(scan_threads)
  /\ scan_threads[i].pc = "cache"
  /\ directory_cache' =
       DcPut(directory_cache, scan_threads[i].selected_path, scan_threads[i].results)
  /\ scan_threads' = [scan_threads EXCEPT ![i].pc = "trim"]
  /\ last' = NoCall
  /\ UNCHANGED <<scanFrame, scan_results_list, delete_button, scan_status_text, scan_button,
                 cancel_button, scan_thread_state, breadcrumb_row>>

\* manage_cache()
ScanThreadTrim(i) ==
  /\ i \in 1..Len(scan_threads)
  /\ scan_threads[i].pc = "trim"
  /\ directory_cache' = manage_cache(directory_cache)
  /\ scan_threads' = [scan_threads EXCEPT ![i].pc = "display"]
  /\ last' = NoCall
  /\ UNCHANGED <<scanFrame, scan_results_list, delete_button, scan_status_text, scan_button,
                 cancel_button, scan_thread_state, breadcrumb_row>>

\* display_scan_results(results, selected_path)
ScanThreadDisplay(i) ==
  /\ i \in 1..Len(scan_threads)
  /\ scan_threads[i].pc = "display"
  /\ scan_results_list' = DisplayedTiles(scan_threads[i].results, scan_threads[i].selected_path)
  /\ breadcrumb_row' = update_breadcrumbs(scan_threads[i].selected_path)
  /\ scan_status_text' =
       "Scan of " \o scan_threads[i].selected_path \o " complete. Found "
         \o str(Len(scan_threads[i].results)) \o " items."
  /\ delete_button' = [delete_button EXCEPT !.visible = FALSE]
  /\ scan_threads' = [scan_threads EXCEPT ![i].pc = "reset"]
  /\ last' = NoCall
  /\ UNCHANGED <<scanFrame, scan_button, cancel_button, scan_thread_state, directory_cache>>

\* reset_scan_ui(), the last statement of the thread.
ScanThreadReset(i) ==
  /\ i \in 1..Len(scan_threads)
  /\ scan_threads[i].pc = "reset"
  /\ LET r == reset_scan_ui(scan_thread_state, scan_status_text)
     IN /\ scan_thread_state' = r.state
        /\ scan_status_text' = r.status
  /\ scan_button' = [disabled |-> FALSE]
  /\ cancel_button' = [disabled |-> TRUE]
  /\ scan_threads' = RemoveAt(scan_threads, i)
  /\ last' = NoCall
  /\ UNCHANGED <<scanFrame, scan_results_list, delete_button, directory_cache, breadcrumb_row>>

(***************************************************************************)
(* The scan of a directory, statement by statement.                        *)
(***************************************************************************)

\* The directories the user picks in the dropdown.
MediaChoices == {"/Users/u/Music", "/Users/u/Pictures"}

ScanInit ==
  /\ config = [gemini_api_key |-> "sk-1", openai_api_key |-> "",
               preferred_ai_provider |-> "gemini", enable_ai_analysis |-> TRUE,
               cache_ai_results |-> TRUE]
  /\ cache = << >>
  /\ available = [gemini |-> TRUE, openai |-> FALSE]
  /\ analyzing = [p \in Analyzable |-> 0]
  /\ saving = << >>
  /\ last = NoCall
  /\ disk = MusicPaths \cup PicturesPaths
  /\ scan_results_list = << >>
  /\ UiInit

\* The most entries a directory of the model has.
MaxEntries == 3

ScanNext ==
  \/ \E selected_path \in MediaChoices : ScanDirectoryHandler(selected_path) /\ ScanThreadsBounded
  \/ \E i \in 1..MaxScanThreads, listing_fails \in BOOLEAN : ScanThreadList(i, listing_fails)
  \/ \E i \in 1..MaxScanThreads : \E order \in ListingOrders(EntriesOf(i)) : ScanThreadSubmit(i, order)
  \/ \E i \in 1..MaxScanThreads, k \in 1..MaxEntries : WorkerRun(i, k)
  \/ \E i \in 1..MaxScanThreads : ScanThreadCheck(i)
  \/ \E i \in 1..MaxScanThreads : ScanThreadResult(i)
  \/ \E i \in 1..MaxScanThreads : ScanThreadDecide(i)
  \/ \E i \in 1..MaxScanThreads : ScanThreadCache(i)
  \/ \E i \in 1..MaxScanThreads : ScanThreadTrim(i)
  \/ \E i \in 1..MaxScanThreads : ScanThreadDisplay(i)
  \/ \E i \in 1..MaxScanThreads : ScanThreadReset(i)
  \/ CancelScanHandler

SpecScan == ScanInit /\ [][ScanNext]_vars

(***************************************************************************)
(* The directory cache filled by scans of distinct directories: the user   *)
(* walks down the nested directories and back through cached listings.     *)
(***************************************************************************)

CacheInit ==
  /\ config = [gemini_api_key |-> "sk-1", openai_api_key |-> "",
               preferred_ai_provider |-> "gemini", enable_ai_analysis |-> TRUE,
               cache_ai_results |-> TRUE]
  /\ cache = << >>
  /\ available = [gemini |-> TRUE, openai |-> FALSE]
  /\ analyzing = [p \in Analyzable |-> 0]
  /\ saving = << >>
  /\ last = NoCall
  /\ disk = NestedPaths
  /\ scan_results_list = << >>
  /\ UiInit

\* The directory the click on the i-th tile of the list scans.
TileTarget(i) ==
  IF i \in 1..Len(scan_results_list) THEN scan_results_list[i].on_click ELSE ""

\* The directory is one whose listing is cached, or one that was not scanned
\* before: it lies deeper than every directory of the cache.
CachedOrNew(path) ==
  \/ path \in DcKeys(directory_cache)
  \/ \A key \in DcKeys(directory_cache) : Len(key) < Len(path)

CacheNext ==
  \/ CachedOrNew("/System") /\ ScanDirectoryHandler("/System") /\ ScanThreadsBounded
  \/ \E i \in 1..2 : CachedOrNew(TileTarget(i)) /\ TileClick(i) /\ ScanThreadsBounded
  \/ \E i \in 1..MaxScanThreads : ScanThreadList(i, FALSE)
  \/ \E i \in 1..MaxScanThreads : \E order \in ListingOrders(EntriesOf(i)) : ScanThreadSubmit(i, order)
  \/ \E i \in 1..MaxScanThreads : WorkerRun(i, 1)
  \/ \E i \in 1..MaxScanThreads : ScanThreadCheck(i)
  \/ \E i \in 1..MaxScanThreads : ScanThreadResult(i)
  \/ \E i \in 1..MaxScanThreads : ScanThreadDecide(i)
  \/ \E i \in 1..MaxScanThreads : ScanThreadCache(i)
  \/ \E i \in 1..MaxScanThreads : ScanThreadTrim(i)
  \/ \E i \in 1..MaxScanThreads : ScanThreadDisplay(i)
  \/ \E i \in 1..MaxScanThreads : ScanThreadReset(i)

SpecCache == CacheInit /\ [][CacheNext]_vars

(***************************************************************************)
(* Navigation while a scan is running: the breadcrumbs stay clickable, and *)
(* each click on a directory that is not cached starts a scan thread.      *)
(***************************************************************************)

\* Scan threads that may run at the same time when the user navigates.
MaxConcurrentScans == 2

ConcurrentScansBounded == Len(scan_threads') <= MaxConcurrentScans

NavigateNext ==
  \/ \E selected_path \in MediaChoices :
       ScanDirectoryHandler(selected_path) /\ ConcurrentScansBounded
  \/ \E i \in 1..4 : BreadcrumbClick(i) /\ ConcurrentScansBounded
  \/ \E i \in 1..MaxConcurrentScans, listing_fails \in BOOLEAN : ScanThreadList(i, listing_fails)
  \/ \E i \in 1..MaxConcurrentScans :
       \E order \in ListingOrders(EntriesOf(i)) : ScanThreadFinish(i, order)
  \/ CancelScanHandler

SpecNavigate == ScanInit /\ [][NavigateNext]_vars

(***************************************************************************)
(* ConfigManager.cache_analysis statement by statement: the store into the *)
(* dict, then _save_cache, which holds the cache file open for writing     *)
(* until json.dump is through.  No lock is taken.                          *)
(***************************************************************************)

\* The analyze() thread from the provider's answer on: ai_analyze_path
\* returns when there is nothing to cache; otherwise cache_analysis stores
\* the result and _save_cache opens the file.
AiAnalyzeStore(path, response) ==
  /\ analyzing[path] > 0
  /\ analyzing' = [analyzing EXCEPT ![path] = @ - 1]
  /\ LET r == ai_analyze_path_end(path, response)
     IN IF r.branch = "ai" /\ config.cache_ai_results
        THEN /\ cache' = r.cache
             /\ saving' = Append(saving, [path |-> path, result |-> r.ret])
             /\ UNCHANGED last
        ELSE /\ cache' = r.cache
             /\ last' = Returned("assist", path, r)
             /\ UNCHANGED saving
  /\ UNCHANGED <<config, available, uiVars>>

\* json.dump is through, the file is closed: _save_cache, cache_analysis
\* and ai_analyze_path return.
SaveCacheReturn(i) ==
  /\ i \in 1..Len(saving)
  /\ saving' = RemoveAt(saving, i)
  /\ last' = Returned("assist", saving[i].path, Outcome("ai", saving[i].result, cache, 1))
  /\ UNCHANGED <<config, cache, available, analyzing, uiVars>>

\* The items of Downloads on display, their AI icons clicked.
PersistNext ==
  \/ ScanDirectoryHandler("/Users/u/Downloads") /\ ScanThreadsBounded
  \/ \E i \in 1..MaxScanThreads : ScanThreadList(i, FALSE)
  \/ \E i \in 1..MaxScanThreads : \E order \in ListingOrders(EntriesOf(i)) : ScanThreadFinish(i, order)
  \/ \E path \in ClickedAiPaths : AiAnalyzeStart(path)
  \/ \E path \in ClickedAiPaths, response \in ClickedResponses :
       AiAnalyzeStore(path, response)
  \/ \E i \in 1..Cardinality(ClickedAiPaths) : SaveCacheReturn(i)

SpecPersist == Init /\ [][PersistNext]_vars

(***************************************************************************)
(* The disk analyzer's deletions with the scans they start: "Yes, Delete"  *)
(* stays on the page while a scan runs, and perform_deletion starts a scan *)
(* whether or not one is running.                                          *)
(***************************************************************************)

DeleteNext ==
  \/ \E selected_path \in DropdownChoices :
       ScanDirectoryHandler(selected_path) /\ ConcurrentScansBounded
  \/ \E i \in 1..MaxConcurrentScans : ScanThreadList(i, FALSE)
  \/ \E i \in 1..MaxConcurrentScans : \E order \in ListingOrders(EntriesOf(i)) : ScanThreadFinish(i, order)
  \/ \E i \in 1..(Cardinality(DiskPaths) + 1) : CheckboxChange(i)
  \/ SimpleDeleteSelected
  \/ \E failing \in FailingChoices : ConfirmDeletion(failing) /\ ConcurrentScansBounded
  \/ CancelDeletion

SpecDelete == Init /\ [][DeleteNext]_vars

(***************************************************************************)
(* The disk analyzer over two directories of the dropdown: scans, cached   *)
(* listings, and deletions confirmed after the user has moved on.          *)
(***************************************************************************)

MediaNext ==
  \/ \E selected_path \in MediaChoices :
       ScanDirectoryHandler(selected_path) /\ ScanThreadsBounded
  \/ \E i \in 1..MaxScanThreads : ScanThreadList(i, FALSE)
  \/ \E i \in 1..MaxScanThreads : \E order \in ListingOrders(EntriesOf(i)) : ScanThreadFinish(i, order)
  \/ \E i \in 1..(MaxEntries + 1) : CheckboxChange(i)
  \/ SimpleDeleteSelected
  \/ \E failing \in FailingChoices : ConfirmDeletion(failing) /\ ScanThreadsBounded
  \/ CancelDeletion

SpecMedia == ScanInit /\ [][MediaNext]_vars

(***************************************************************************)
(* _fallback_heuristic_analysis applied to paths of every kind of name.    *)
(***************************************************************************)

\* The directories the names lie in.
HeuristicDirs == {"/", "/var/cache/", "/System/Library/", "/Users/u/Preferences/"}

\* The names: of one group, of several groups, of none, in either case.
HeuristicNames ==
  { "Cache", "temp_files", "x.tmp", "catalog", "save.bak", "x.old", "system.log",
    "config.log", "Preferences", "settings.json", "bootconfig", "profile", "kernel",
    "SystemDriver", "bootcamp", "recovery", "notes", "photo.jpg", "firmware.orig", "x.dylib" }

HeuristicInputs == { d \o n : d \in HeuristicDirs, n \in HeuristicNames }

\* A caller obtains _fallback_heuristic_analysis(path).
Heuristic(path) ==
  /\ last' = [op |-> "heuristic", path |-> path, branch |-> "",
              ret |-> _fallback_heuristic_analysis(path), provider_calls |-> 0,
              repeat |-> (last.op = "heuristic" /\ last.path = path)]
  /\ UNCHANGED <<classifierVars, uiVars>>

HeuristicNext == \E path \in HeuristicInputs : Heuristic(path)

SpecHeuristic == Init /\ [][HeuristicNext]_vars

(***************************************************************************)
(* The pool of a scan thread with its tasks under way: a task is taken up  *)
(* by a worker, runs, and returns.  Each scan thread has a pool of its own.*)
(***************************************************************************)

\* ThreadPoolExecutor(max_workers=4)
max_workers == 4

\* The futures of the i-th scan thread whose task a worker is running.
Running(i) == { k \in 1..Len(scan_threads[i].futures) : scan_threads[i].futures[k].state = "running" }

\* A pool that takes up a task whatever the number of tasks under way.
pool_has_worker_always(i) == TRUE

\* The pool of the i-th scan thread has a worker for one more task: fewer
\* than max_workers of its tasks are under way.
pool_has_worker(i) == Cardinality(Running(i)) < max_workers

\* A worker takes the oldest pending task of the pool and enters
\* get_size_threaded, which returns None at once when the scan is cancelled.
WorkerStart(i, k) ==
  /\ i \in 1..Len(scan_threads)
  /\ scan_threads[i].pc \in {"check", "result"}
  /\ k \in 1..Len(scan_threads[i].futures)
  /\ scan_threads[i].futures[k].state = "pending"
  /\ \A j \in 1..(k - 1) : scan_threads[i].futures[j].state # "pending"
  /\ pool_has_worker(i)
  /\ scan_threads' =
       [scan_threads EXCEPT
          ![i].futures[k] =
             IF scan_thread_state.cancelled
             THEN [@ EXCEPT !.state = "done", !.result = None]
             ELSE [@ EXCEPT !.state = "running"]]
  /\ last' = NoCall
  /\ UNCHANGED <<scanFrame, scan_results_list, delete_button, scan_status_text, scan_button,
                 cancel_button, scan_thread_state, directory_cache, breadcrumb_row>>

\* The task returns: the size of a file; of a directory the sum over its
\* walk, or None when the walk sees the scan cancelled.
WorkerFinish(i, k) ==
  /\ i \in 1..Len(scan_threads)
  /\ k \in Running(i)
  /\ LET path == scan_threads[i].futures[k].path
     IN scan_threads' =
          [scan_threads EXCEPT
             ![i].futures[k] =
                [@ EXCEPT !.state = "done",
                          !.result = get_size_threaded(path, disk,
                                                       IsDir(path) /\ scan_thread_state.cancelled)]]
  /\ last' = NoCall
  /\ UNCHANGED <<scanFrame, scan_results_list, delete_button, scan_status_text, scan_button,
                 cancel_button, scan_thread_state, directory_cache, breadcrumb_row>>

\* The with block of the pool is left when the tasks under way have
\* returned.
PoolIdle(i) == i \in 1..Len(scan_threads) => Running(i) = {}

\* The order in which os.scandir yields the entries in these runs.
ListingOrder(entries) == CHOOSE order \in ListingOrders(entries) : TRUE

\* The directories the user picks in the dropdown in these runs.
PoolChoices == {"/Users/u/Movies"}

\* The disk holds Music, Pictures and Movies.
PoolInit ==
  /\ config = [gemini_api_key |-> "sk-1", openai_api_key |-> "",
               preferred_ai_provider |-> "gemini", enable_ai_analysis |-> TRUE,
               cache_ai_results |-> TRUE]
  /\ cache = << >>
  /\ available = [gemini |-> TRUE, openai |-> FALSE]
  /\ analyzing = [p \in Analyzable |-> 0]
  /\ saving = << >>
  /\ last = NoCall
  /\ disk = MusicPaths \cup PicturesPaths \cup MoviesPaths
  /\ scan_results_list = << >>
  /\ UiInit

\* The most tasks a pool of these runs is given.
MaxTasks == 5

\* Scans of Movies and of the directories of the breadcrumbs,
\* the tasks of the pools under way.
PoolNext ==
  \/ \E selected_path \in PoolChoices :
       ScanDirectoryHandler(selected_path) /\ ConcurrentScansBounded
  \/ \E c \in 1..4 : BreadcrumbClick(c) /\ ConcurrentScansBounded
  \/ \E i \in 1..MaxConcurrentScans : ScanThreadList(i, FALSE)
  \/ \E i \in 1..MaxConcurrentScans : ScanThreadSubmit(i, ListingOrder(EntriesOf(i)))
  \/ \E i \in 1..MaxConcurrentScans, k \in 1..MaxTasks : WorkerStart(i, k)
  \/ \E i \in 1..MaxConcurrentScans, k \in 1..MaxTasks : WorkerFinish(i, k)
  \/ \E i \in 1..MaxConcurrentScans : ScanThreadCheck(i)
  \/ \E i \in 1..MaxConcurrentScans : ScanThreadResult(i)
  \/ \E i \in 1..MaxConcurrentScans : ScanThreadDecide(i) /\ PoolIdle(i)
  \/ \E i \in 1..MaxConcurrentScans : ScanThreadCache(i)
  \/ \E i \in 1..MaxConcurrentScans : ScanThreadTrim(i)
  \/ \E i \in 1..MaxConcurrentScans : ScanThreadDisplay(i)
  \/ \E i \in 1..MaxConcurrentScans : ScanThreadReset(i)

SpecPool == PoolInit /\ [][PoolNext]_vars

(***************************************************************************)
(* The aggregation of Quick Clean: analyze_quick_clean_iter, which the     *)
(* page streams from, and analyze_quick_clean, with gatherers that fail.   *)
(***************************************************************************)

\* c in GATHERERS
InGatherers(cat) == cat \in {USER_CACHE, MACOS_INSTALLERS}

\* The directory a gatherer lists.
GathererRoot(cat) == IF cat = USER_CACHE THEN HOME \o "/Library/Caches" ELSE "/Applications"

\* GATHERERS[cat]() on the disk as it is at the start, computed once.
GatheredOfDiskPaths ==
  [cat \in {USER_CACHE, MACOS_INSTALLERS} |-> GATHERERS(cat, DiskPaths)]

\* GATHERERS[cat]() where os.scandir raises OSError on the denied roots (or
\* os.path.isdir is false of them): the gatherer returns no items.
gathered(cat, d, denied) ==
  IF GathererRoot(cat) \in denied THEN << >>
  ELSE IF d = DiskPaths THEN GatheredOfDiskPaths[cat]
  ELSE GATHERERS(cat, d)

\* sum(i.size for i in items)
RECURSIVE SumItemSizes(_)
SumItemSizes(items) ==
  IF items = << >> THEN 0 ELSE Head(items).size + SumItemSizes(Tail(items))

\* The body of the loop of a generator without the try block: an exception
\* of a gatherer leaves the generator, and what follows sees no category
\* more.
iter_step_propagating(acc, cat, d, denied, raising) ==
  IF acc.raised \/ ~InGatherers(cat) THEN acc
  ELSE IF cat \in raising THEN [acc EXCEPT !.raised = TRUE]
  ELSE LET items == gathered(cat, d, denied)
       IN [acc EXCEPT !.yielded =
             Append(@, [cat |-> cat, items |-> items, size |-> SumItemSizes(items)])]

\* The body of the loop of analyze_quick_clean_iter: an unknown category is
\* passed over; the items of a gatherer that raises are []; the category,
\* its items and their size are yielded.
iter_step(acc, cat, d, denied, raising) ==
  IF ~InGatherers(cat) THEN acc
  ELSE LET items == IF cat \in raising THEN << >> ELSE gathered(cat, d, denied)
       IN [acc EXCEPT !.yielded =
             Append(@, [cat |-> cat, items |-> items, size |-> SumItemSizes(items)])]

\* analyze_quick_clean_iter: what it yields, and whether an exception left it.
RECURSIVE analyze_quick_clean_iter(_, _, _, _)
analyze_quick_clean_iter(selected_categories, d, denied, raising) ==
  IF selected_categories = << >> THEN [raised |-> FALSE, yielded |-> << >>]
  ELSE iter_step(analyze_quick_clean_iter(SubSeq(selected_categories, 1,
                                                    Len(selected_categories) - 1),
                                             d, denied, raising),
                 selected_categories[Len(selected_categories)], d, denied, raising)

\* The categories the futures of analyze_quick_clean are submitted for.
SubmittedFor(selected_categories) == SelectSeq(selected_categories, InGatherers)

\* The orders in which as_completed may yield n futures.
CompletionOrders(n) ==
  { order \in [1..n -> 1..n] : \A i, j \in 1..n : i # j => order[i] # order[j] }

\* The loop over as_completed: the items of a future are added, the
\* exception of a future is logged.
RECURSIVE extend_as_completed(_, _, _, _, _)
extend_as_completed(futures, completion, d, denied, raising) ==
  IF completion = << >> THEN << >>
  ELSE LET cat == futures[Head(completion)]
       IN (IF cat \in raising THEN << >> ELSE gathered(cat, d, denied))
            \o extend_as_completed(futures, Tail(completion), d, denied, raising)

\* analyze_quick_clean: QuickCleanResult(items, total_size), the items
\* largest first.
analyze_quick_clean(selected_categories, completion, d, denied, raising) ==
  LET items == extend_as_completed(SubmittedFor(selected_categories), completion,
                                   d, denied, raising)
  IN [items |-> SortBySize(items), total_size |-> SumItemSizes(items)]

\* The most categories given to the aggregation.
MaxSelected == 3

\* The categories given: two of the table and one that is not in it.
GivenCategories == {USER_CACHE, MACOS_INSTALLERS, "bogus"}

\* The lists of categories given.
SelectedLists == UNION { [1..n -> GivenCategories] : n \in 0..MaxSelected }

\* Both aggregations are called and return.
AnalyzeQuickClean(selected_categories, completion, denied, raising) ==
  /\ completion \in CompletionOrders(Len(SubmittedFor(selected_categories)))
  /\ last' = [op |-> "analyze_quick_clean", path |-> "", branch |-> "",
              ret |-> [selected_categories |-> selected_categories,
                       denied |-> denied, raising |-> raising,
                       iter |-> analyze_quick_clean_iter(selected_categories, disk,
                                                         denied, raising),
                       result |-> analyze_quick_clean(selected_categories, completion,
                                                      disk, denied, raising)],
              provider_calls |-> 0, repeat |-> FALSE]
  /\ UNCHANGED <<classifierVars, uiVars>>

GatherNext ==
  \E selected_categories \in SelectedLists :
    \E completion \in CompletionOrders(Len(SubmittedFor(selected_categories))) :
      \E denied \in SUBSET {GathererRoot(USER_CACHE), GathererRoot(MACOS_INSTALLERS)} :
        \E raising \in SUBSET {USER_CACHE, MACOS_INSTALLERS} :
          AnalyzeQuickClean(selected_categories, completion, denied, raising)

SpecGather == Init /\ [][GatherNext]_vars

\* The scans of the pools with cancel requests.
CancelPoolNext ==
  \/ \E selected_path \in PoolChoices :
       ScanDirectoryHandler(selected_path) /\ ConcurrentScansBounded
  \/ \E c \in 1..4 : BreadcrumbClick(c) /\ ConcurrentScansBounded
  \/ \E i \in 1..MaxConcurrentScans : ScanThreadList(i, FALSE)
  \/ \E i \in 1..MaxConcurrentScans : ScanThreadSubmit(i, ListingOrder(EntriesOf(i)))
  \/ \E i \in 1..MaxConcurrentScans, k \in 1..MaxTasks : WorkerStart(i, k)
  \/ \E i \in 1..MaxConcurrentScans, k \in 1..MaxTasks : WorkerFinish(i, k)
  \/ \E i \in 1..MaxConcurrentScans : ScanThreadCheck(i)
  \/ \E i \in 1..MaxConcurrentScans : ScanThreadResult(i)
  \/ \E i \in 1..MaxConcurrentScans : ScanThreadDecide(i) /\ PoolIdle(i)
  \/ \E i \in 1..MaxConcurrentScans : ScanThreadCache(i)
  \/ \E i \in 1..MaxConcurrentScans : ScanThreadTrim(i)
  \/ \E i \in 1..MaxConcurrentScans : ScanThreadDisplay(i)
  \/ \E i \in 1..MaxConcurrentScans : ScanThreadReset(i)
  \/ CancelScanHandler

SpecCancelPool == PoolInit /\ [][CancelPoolNext]_vars

(***************************************************************************)
(* Scans under fair scheduling: a scan thread that can take a step takes   *)
(* one, and so does a worker of its pool.  What the user does (Scan, the   *)
(* breadcrumbs, Cancel) is under no such condition.                        *)
(***************************************************************************)

\* The directory the user picks in the dropdown in these runs.
FairChoices == {"/Users/u/Pictures"}

\* The breadcrumb the user clicks in these runs: "Users", a relative path
\* whose listing fails.
FairCrumbs == {2}

\* A step of the i-th scan thread.
ScanThreadStep(i) ==
  \/ \E listing_fails \in BOOLEAN : ScanThreadList(i, listing_fails)
  \/ ScanThreadSubmit(i, ListingOrder(EntriesOf(i)))
  \/ ScanThreadCheck(i)
  \/ ScanThreadResult(i)
  \/ ScanThreadDecide(i)
  \/ ScanThreadCache(i)
  \/ ScanThreadTrim(i)
  \/ ScanThreadDisplay(i)
  \/ ScanThreadReset(i)

\* A step of a worker of the pool of the i-th scan thread.
WorkerStep(i) ==
  \E k \in 1..MaxEntries : WorkerRun(i, k)

FairNext ==
  \/ \E selected_path \in FairChoices :
       ScanDirectoryHandler(selected_path) /\ ConcurrentScansBounded
  \/ \E c \in FairCrumbs : BreadcrumbClick(c) /\ ConcurrentScansBounded
  \/ CancelScanHandler
  \/ \E i \in 1..MaxConcurrentScans : ScanThreadStep(i)
  \/ \E i \in 1..MaxConcurrentScans : WorkerStep(i)

\* The threads are scheduled fairly.
Fairness ==
  \A i \in 1..MaxConcurrentScans : WF_vars(ScanThreadStep(i)) /\ WF_vars(WorkerStep(i))

SpecFair == PoolInit /\ [][FairNext]_vars /\ Fairness

(***************************************************************************)
(* Properties of the deletion gate.                                        *)
(***************************************************************************)

\* The paths of the checked tiles, in the order of the list.
CheckedPaths ==
  LET idx == { i \in 1..Len(scan_results_list) :
                 scan_results_list[i].trailing /\ scan_results_list[i].checkbox }
      RECURSIVE Walk(_)
      Walk(i) == IF i > Len(scan_results_list) THEN << >>
                 ELSE (IF i \in idx THEN <<scan_results_list[i].data>> ELSE << >>) \o Walk(i + 1)
  IN Walk(1)

\* The classify verdict of a path in the current state.
IsRedNow(path) ==
  LET np == Normalized[path]
  IN IF config.cache_ai_results /\ np \in DOMAIN cache THEN cache[np].safety = "red"
     ELSE RuleAnswer[np] # None /\ RuleAnswer[np].safety = "red"

\* The base names of the red ones among the checked paths, comma separated.
RedNames ==
  LET RECURSIVE Names(_)
      Names(paths) ==
        IF paths = << >> THEN ""
        ELSE LET rest == Names(Tail(paths))
             IN IF ~IsRedNow(Head(paths)) THEN rest
                ELSE IF rest = "" THEN basename(Head(paths))
                ELSE basename(Head(paths)) \o ", " \o rest
  IN Names(CheckedPaths)

\* C1: a click on Delete Selected with at least one red path among the
\* selected ones rejects the batch with a message that names every red path
\* of it, does not open (or re-arm) the confirmation, removes nothing and
\* starts nothing; and the items a confirmation holds, the only ones the
\* analyzer ever removes, were never red at the gate.
C1_GateIsAllOrNothing ==
  /\ [][(SimpleDeleteSelected /\ \E i \in 1..Len(CheckedPaths) : IsRedNow(CheckedPaths[i]))
          => /\ scan_status_text' = "Cannot delete unsafe items (red): " \o RedNames
             /\ confirmation_row' = confirmation_row
             /\ disk' = disk
             /\ scan_threads' = scan_threads
             /\ run_delete' = run_delete]_vars
  /\ [](\A i \in 1..Len(confirmation_row.selected_items) :
          confirmation_row.selected_items[i].safety # "red")
  /\ [][\A p \in disk \ disk' :
          /\ confirmation_row.visible
          /\ \E i \in 1..Len(confirmation_row.selected_items) :
               confirmation_row.selected_items[i].path = p]_vars

\* A batch of two red paths and one that is not red was rejected: the
\* message names both, no confirmation is shown, everything is on disk.
C1_Witness ==
  /\ scan_status_text = "Cannot delete unsafe items (red): notes, bootcamp"
  /\ Len(CheckedPaths) = 3
  /\ ~IsRedNow("/Users/u/Downloads/old.log")
  /\ ~confirmation_row.visible
  /\ confirmation_row.selected_items = << >>
  /\ disk = DiskPaths

\* C2: on every deletion entry point, a path that classify calls red is
\* removed from disk only as part of a batch the gate accepted (the batch of
\* the confirmation that is showing, none of it red at the gate); no request
\* reaches the executor around the gate.
C2_EveryDeletionIsGated ==
  [][\A p \in disk \ disk' :
       \/ /\ confirmation_row.visible
          /\ \E i \in 1..Len(confirmation_row.selected_items) :
               confirmation_row.selected_items[i].path = p
          /\ \A i \in 1..Len(confirmation_row.selected_items) :
               confirmation_row.selected_items[i].safety # "red"
       \/ ~IsRedNow(p)]_vars

(***************************************************************************)
(* Properties of the classifier.                                           *)
(***************************************************************************)

\* The length of the literal text a pattern starts with, before its first
\* wildcard.
RECURSIVE LiteralPrefixLen(_)
LiteralPrefixLen(pat) ==
  IF pat = "" \/ CharAt(pat, 1) \in {"*", "?", "["} THEN 0
  ELSE 1 + LiteralPrefixLen(StrFrom(pat, 2))

\* The tiers of the matching rules whose normalized pattern has the longest
\* literal prefix.
MostSpecificTiers(normalized_path) ==
  LET m == MatchingRules(normalized_path)
      len(i) == LiteralPrefixLen(normalize_path(PREDEFINED_RULES[i].pattern))
  IN { PREDEFINED_RULES[i].safety : i \in { k \in m : \A j \in m : len(j) <= len(k) } }

MostSpecificAnswer == [np \in NormalizedPaths |-> MostSpecificTiers(np)]

\* C3: when classify finds no cached verdict and rules match, the verdict is
\* that of the matching rule with the longest non-wildcard literal prefix,
\* whatever the order of declaration.
C3_MostSpecificRuleWins ==
  (last.op = "classify" /\ last.branch = "rule")
    => last.ret.safety \in MostSpecificAnswer[Normalized[last.path]]

\* The verdicts of the rules that match a normalized path.
MatchingVerdicts ==
  [np \in NormalizedPaths |->
     { [safety |-> PREDEFINED_RULES[i].safety, reason |-> PREDEFINED_RULES[i].reason] :
         i \in MatchingRules(np) }]

\* What the layered order of C4 allows for a path in the current state, with
\* the entry of the cache taken whenever there is one.
LayeredAnswer(path) ==
  LET np == Normalized[path]
  IN IF np \in DOMAIN cache THEN {cache[np]}
     ELSE IF MatchingVerdicts[np] # {} THEN MatchingVerdicts[np]
     ELSE { [safety |-> "grey", reason |-> "Safety level unknown. Click AI icon for analysis."] }

\* The same with the entry of the cache taken only while caching is enabled.
LayeredAnswerIfCaching(path) ==
  LET np == Normalized[path]
  IN IF config.cache_ai_results /\ np \in DOMAIN cache THEN {cache[np]}
     ELSE IF MatchingVerdicts[np] # {} THEN MatchingVerdicts[np]
     ELSE { [safety |-> "grey", reason |-> "Safety level unknown. Click AI icon for analysis."] }

\* C4 as stated: classify returns the entry of the cache if the normalized
\* path has one, otherwise the verdict of a matching rule, otherwise grey.
C4_LayeredOrder ==
  [][\A path \in Paths : Classify(path) => last'.ret \in LayeredAnswer(path)]_vars

\* C4 amended: classify returns the entry of the cache if result caching is
\* enabled (cache_ai_results) and the normalized path has an entry,
\* otherwise the verdict of a matching rule, otherwise grey.
C4_LayeredOrderIfCaching ==
  [][\A path \in Paths : Classify(path) => last'.ret \in LayeredAnswerIfCaching(path)]_vars

\* A classify call returned the entry of the cache, over a rule that
\* matches the path.
C4_Witness ==
  /\ last.op = "classify"
  /\ Normalized[last.path] \in DOMAIN cache
  /\ last.ret = cache[Normalized[last.path]]
  /\ RuleAnswer[Normalized[last.path]] # None
  /\ RuleAnswer[Normalized[last.path]] # last.ret

\* C5: no call to classify sends a request to a provider or adds, changes
\* or removes an entry of the classification cache or of the directory
\* cache; rule-based and grey results are not written to the cache.
C5_ClassifyIsPure ==
  [][\A path \in Paths :
       Classify(path) => /\ cache' = cache
                         /\ directory_cache' = directory_cache
                         /\ last'.provider_calls = 0
                         /\ analyzing' = analyzing]_vars

\* A classify call returned a rule's verdict for a path that has no entry in
\* the cache: the verdict was not written.
C5_Witness ==
  /\ last.op = "classify"
  /\ last.branch \in {"rule", "grey"}
  /\ Normalized[last.path] \notin DOMAIN cache

\* C6: with the rule table and the cache unchanged, a repeated classify call
\* returns the tier and the provenance the call before it returned.
C6_ClassifyIsIdempotent ==
  [][\A path \in Paths :
       (last.op = "classify" /\ last.path = path /\ Classify(path))
         => /\ last'.ret = last.ret
            /\ last'.branch = last.branch]_vars

\* The same classify call was made twice in a row.
C6_Witness ==
  /\ last.op = "classify"
  /\ last.repeat
  /\ last.branch = "rule"

(***************************************************************************)
(* Properties of the assisted analysis.                                    *)
(***************************************************************************)

\* The provider answers without the call raising, with a JSON object that
\* has both keys.
IsWellFormed(response) ==
  /\ ~response.raises
  /\ response.json
  /\ response.dict
  /\ {"safety", "reason"} \subseteq response.keys

\* The heuristic verdict of the normalized path.
HeuristicVerdict(path) == HeuristicAnswer[Normalized[path]]

IsHeuristicVerdict(v) ==
  /\ v.safety \in {"green", "orange", "red"}
  /\ StartsWith(v.reason, "Heuristic Analysis: ")

\* The key configured for the preferred provider is missing or blank.
NoCredential ==
  LET key == IF config.preferred_ai_provider = "gemini" THEN config.gemini_api_key
             ELSE config.openai_api_key
  IN key = "" \/ IsBlank(key)

C8_ThreeAttemptsBeforeFallback ==
  (last.op = "assist" /\ last.branch = "failed" /\ last.provider_calls > 0)
    => last.provider_calls = AI_CONFIG.max_retries

\* C9: a provider response is accepted as the verdict only if its tier is
\* green, orange or red and it has a reason; any other response gives the
\* heuristic verdict.
C9_StrictResponseValidation ==
  (last.op = "assist" /\ last.provider_calls > 0)
    => \/ /\ last.branch = "ai"
          /\ last.ret.safety \in {"green", "orange", "red"}
       \/ /\ last.branch = "failed"
          /\ last.ret = HeuristicVerdict(last.path)

\* C10: with result caching enabled, a verdict ai_analyze_path returns for a
\* path that was not cached, from the provider or from the heuristic on any
\* fallback branch, is in the cache under the normalized path when the call
\* returns, and the next classify returns it.
C10_VerdictIsPersisted ==
  (last.op = "assist" /\ last.branch # "cached" /\ config.cache_ai_results)
    => /\ Normalized[last.path] \in DOMAIN cache
       /\ cache[Normalized[last.path]] = last.ret
       /\ get_safety_info(last.path).ret = last.ret

\* C11 as stated: when the classification cache holds a verdict for the
\* normalized path, ai_analyze_path without a forced provider returns that
\* verdict, sends no request to a provider and leaves the cache unchanged.
C11_NoRequeryOfCachedPaths ==
  [][\A path \in AiPaths :
       (AiAnalyzeStart(path) /\ Normalized[path] \in DOMAIN cache)
         => /\ last'.op = "assist" /\ last'.path = path
            /\ last'.ret = cache[Normalized[path]]
            /\ last'.provider_calls = 0
            /\ analyzing' = analyzing
            /\ cache' = cache]_vars

\* C11 amended: the same while result caching is enabled (cache_ai_results).
C11_NoRequeryIfCaching ==
  [][\A path \in AiPaths :
       (AiAnalyzeStart(path) /\ config.cache_ai_results /\ Normalized[path] \in DOMAIN cache)
         => /\ last'.op = "assist" /\ last'.path = path
            /\ last'.ret = cache[Normalized[path]]
            /\ last'.provider_calls = 0
            /\ analyzing' = analyzing
            /\ cache' = cache]_vars

\* An analysis was asked for twice: the second call returned the provider's
\* verdict the first one had cached, with no request.
C11_Witness ==
  /\ last.op = "assist"
  /\ last.branch = "cached"
  /\ last.provider_calls = 0
  /\ last.ret = cache[Normalized[last.path]]
  /\ StartsWith(last.ret.reason, "AI Analysis: ")
  /\ config.enable_ai_analysis
  /\ ~NoCredential

\* C12: in every reachable state every entry of the classification cache
\* has a tier among green, orange and red; no grey verdict is cached.
C12_NoGreyInCache ==
  \A np \in DOMAIN cache : cache[np].safety \in {"green", "orange", "red"}

(***************************************************************************)
(* Properties of the scan.                                                 *)
(***************************************************************************)

\* The regular files below a directory whose size can be read.
ReadableFilesBelow(path) ==
  { f \in disk : StartsWith(f, path \o "/") /\ ~IsDir(f) /\ ~islink(f) /\ f \notin Unreadable }

RECURSIVE SumOfBytes(_)
SumOfBytes(files) ==
  IF files = {} THEN 0
  ELSE LET f == CHOOSE g \in files : TRUE IN FileBytes[f] + SumOfBytes(files \ {f})

\* The size C13 gives a child: 0 for a symbolic link, for a directory the
\* bytes of the readable regular files below it, for a file its bytes, 0
\* when they cannot be read.
AccountedSize(path) ==
  IF islink(path) THEN 0
  ELSE IF IsDir(path) THEN SumOfBytes(ReadableFilesBelow(path))
  ELSE IF path \in Unreadable THEN 0
  ELSE FileBytes[path]

\* C13: every entry of a completed scan has the size of the accounting: a
\* file its bytes, a directory the bytes of the regular files below it, a
\* symbolic link 0; the scan of the directory that holds a (10 bytes), b
\* (holding a file of 5 bytes) and s (a link to 100 bytes) gives
\* a:10, b:5, s:0.
C13_ScanSizeAccounting ==
  \A e \in 1..Len(directory_cache) :
    \A k \in 1..Len(directory_cache[e].results) :
      directory_cache[e].results[k].size = AccountedSize(directory_cache[e].results[k].path)

\* The characters of the paths, in the order of their codes.
CodeOrder == " -./0123456789ABCDEFGHIJKLMNOPQRSTUVWXYZ_abcdefghijklmnopqrstuvwxyz~"

\* The place of a character in that order.
CodeOf(c) == CHOOSE i \in 1..Len(CodeOrder) : CharAt(CodeOrder, i) = c

\* a < b for two strings, as Python compares them.
RECURSIVE StrLess(_, _)
StrLess(a, b) ==
  IF b = "" THEN FALSE
  ELSE IF a = "" THEN TRUE
  ELSE IF CharAt(a, 1) = CharAt(b, 1) THEN StrLess(StrFrom(a, 2), StrFrom(b, 2))
  ELSE CodeOf(CharAt(a, 1)) < CodeOf(CharAt(b, 1))

\* C14: the entries of a completed scan are ordered by size, largest first,
\* entries of the same size by path, whatever the order in which the
\* directory was listed and in which the tasks of the workers returned.
C14_DeterministicScanOrder ==
  \A e \in 1..Len(directory_cache) :
    LET results == directory_cache[e].results
    IN \A k \in 1..(Len(results) - 1) :
         \/ results[k].size > results[k + 1].size
         \/ /\ results[k].size = results[k + 1].size
            /\ StrLess(results[k].path, results[k + 1].path)

(***************************************************************************)
(* Properties of the directory cache.                                      *)
(***************************************************************************)

\* The step adds one entry behind the entries of the cache, or replaces the
\* results of an entry where it is.
IsInsertion ==
  \/ /\ Len(directory_cache') = Len(directory_cache) + 1
     /\ SubSeq(directory_cache', 1, Len(directory_cache)) = directory_cache
     /\ directory_cache'[Len(directory_cache')].path \notin DcKeys(directory_cache)
  \/ /\ Len(directory_cache') = Len(directory_cache)
     /\ \A e \in 1..Len(directory_cache) : directory_cache'[e].path = directory_cache[e].path

\* The step removes the 10 entries inserted first from a cache over its
\* capacity, and nothing else.
IsEviction ==
  /\ Len(directory_cache) > MAX_CACHE_SIZE
  /\ directory_cache' = SubSeq(directory_cache, 11, Len(directory_cache))

\* C15: the 55th of 55 distinct directories inserted into the empty cache
\* leaves 45 entries, those of the 10 directories inserted first being the
\* absent ones; every change of the cache is an insertion behind the
\* entries it holds or the eviction of exactly the 10 entries inserted
\* first, which keeps the entry just inserted; a listing served from the
\* cache changes neither the entries nor their order.
C15_FifoEvictionInBlocksOfTen ==
  /\ []( ( /\ directory_cache # << >>
           /\ directory_cache[Len(directory_cache)].path = Nested(54)
           /\ \A t \in 1..Len(scan_threads) : scan_threads[t].pc # "trim" )
         => /\ Len(directory_cache) = 45
            /\ \A e \in 1..45 : directory_cache[e].path = Nested(e + 9) )
  /\ [][directory_cache' # directory_cache => (IsInsertion \/ IsEviction)]_vars
  /\ [][\A i \in 1..2 :
          (TileClick(i) /\ TileTarget(i) \in DcKeys(directory_cache))
            => directory_cache' = directory_cache]_vars

\* 55 directories were scanned one after the other, the first 10 are gone
\* from the cache, and the listing of the 54th was then served from the
\* cache, which left it in its place.
C15_Witness ==
  /\ Len(directory_cache) = 45
  /\ directory_cache[1].path = Nested(10)
  /\ directory_cache[44].path = Nested(53)
  /\ directory_cache[45].path = Nested(54)
  /\ scan_thread_state.current_path = Nested(53)
  /\ StartsWith(scan_status_text, "Loaded cached scan of ")
  /\ scan_threads = << >>

\* C16: in every reachable state, the states between the insertion of a
\* completed scan and the eviction included, the directory cache holds at
\* most 50 entries.
C16_CapacityInvariant == Len(directory_cache) <= MAX_CACHE_SIZE

\* C17: from a request to cancel on ("Cancelling..." is shown until the scan
\* ends) no step of the scan writes to the directory cache or displays the
\* results as a completed scan.
C17_CancelledScanLeavesCacheAlone ==
  [][scan_status_text = "Cancelling..."
       => /\ directory_cache' = directory_cache
          /\ ~StartsWith(scan_status_text', "Scan of ")]_vars

\* C18: at every moment at most one scan thread is running.
C18_SingleActiveScan == Len(scan_threads) <= 1

\* C19: cache writes exclude one another; of the classification cache and
\* its file, no two writes are in progress at a time: at most one thread is
\* inside _save_cache, the file open for writing.
C19_CacheWritesExclusive == Len(saving) <= 1

\* The paths of the batch "Yes, Delete" is bound to.
BatchPaths ==
  [i \in 1..Len(confirmation_row.selected_items) |-> confirmation_row.selected_items[i].path]

C21_DeletionInvalidatesParentListing ==
  [][confirmation_row.visible /\ last'.op = "perform_deletion" =>
       \A p \in disk \ disk' : dirname(p) \notin DcKeys(directory_cache')]_vars

\* The i-th scan thread ends in this step at its listing: os.scandir raised.
ListingFailed(i) ==
  /\ i \in 1..Len(scan_threads)
  /\ scan_threads[i].pc = "start"
  /\ scan_threads' = RemoveAt(scan_threads, i)

GreenLike(name) ==
  \/ \E keyword \in safe_patterns : Contains(name, keyword)
  \/ \E ext \in safe_extensions : EndsWith(name, ext)

OrangeLike(name) == \E keyword \in caution_patterns : Contains(name, keyword)

RedLike(name) == \E keyword \in danger_patterns : Contains(name, keyword)

\* The tier of the first group the name matches, orange when it matches none.
FirstGroupTier ==
  [p \in HeuristicInputs |->
     LET name == Lower(basename(p))
     IN IF GreenLike(name) THEN "green"
        ELSE IF OrangeLike(name) THEN "orange"
        ELSE IF RedLike(name) THEN "red"
        ELSE "orange"]

\* The lower-cased base names of the inputs.
LowerName == [p \in HeuristicInputs |-> Lower(basename(p))]

\* C23: the heuristic's tier is that of the first group the lower-cased
\* base name matches (green names, then orange, then red), orange when it
\* matches none; it is never grey, green only for a name of the green
\* group, and the same verdict for every path of the same lower-cased base
\* name.
C23_HeuristicByFirstGroup ==
  last.op = "heuristic" =>
    /\ last.ret.safety = FirstGroupTier[last.path]
    /\ last.ret.safety \in {"green", "orange", "red"}
    /\ last.ret.safety = "green" => GreenLike(LowerName[last.path])
    /\ StartsWith(last.ret.reason, "Heuristic Analysis: ")
    /\ \A q \in HeuristicInputs :
         LowerName[q] = LowerName[last.path] => _fallback_heuristic_analysis(q) = last.ret

\* A name of the green and of the red group, in a directory whose name is
\* of the red group: the green group decides.
C23_Witness ==
  /\ last.op = "heuristic"
  /\ last.path = "/System/Library/system.log"
  /\ last.ret.safety = "green"

\* The sizing tasks under way, over all the scans that run.
RECURSIVE TasksUnderWay(_)
TasksUnderWay(i) ==
  IF i = 0 THEN 0 ELSE Cardinality(Running(i)) + TasksUnderWay(i - 1)

BreadcrumbSpelling(path) == update_breadcrumbs(path)[Len(update_breadcrumbs(path))]

\* A scan thread is started in this step for the path.
ScanStartedFor(path) ==
  /\ Len(scan_threads') = Len(scan_threads) + 1
  /\ scan_threads'[Len(scan_threads')].selected_path = path

\* C25: the absolute path of a directory and the path its breadcrumb
\* produces address the same entry of the directory cache: while the listing
\* of a directory is cached, a request for the breadcrumb's spelling of it
\* finds the entry, no scan is started for it.
C25_SpellingsShareOneEntry ==
  [][\A path \in DcKeys(directory_cache) : ~ScanStartedFor(BreadcrumbSpelling(path))]_vars

\* The categories of the call that are in the table, in the order given.
KnownSelected == SelectSeq(last.ret.selected_categories, InGatherers)

\* The gatherer of the category raised or could not list its root.
GathererFailed(cat) == cat \in last.ret.raising \/ GathererRoot(cat) \in last.ret.denied

\* What a category contributes: nothing when its gatherer failed.
Contribution(cat) == IF GathererFailed(cat) THEN << >> ELSE GATHERERS(cat, disk)

RECURSIVE Contributions(_)
Contributions(cats) ==
  IF cats = << >> THEN << >> ELSE Contribution(Head(cats)) \o Contributions(Tail(cats))

\* C26: the aggregation never fails because a gatherer failed; a category
\* whose gatherer raises or cannot list its root contributes no items, every
\* other selected category is gathered and reported, and unknown categories
\* are passed over.
C26_GathererFailureIsIsolated ==
  last.op = "analyze_quick_clean" =>
    /\ ~last.ret.iter.raised
    /\ Len(last.ret.iter.yielded) = Len(KnownSelected)
    /\ \A k \in 1..Len(KnownSelected) :
         /\ last.ret.iter.yielded[k].cat = KnownSelected[k]
         /\ last.ret.iter.yielded[k].items = Contribution(KnownSelected[k])
    /\ last.ret.result.items = SortBySize(Contributions(KnownSelected))
    /\ last.ret.result.total_size = SumItemSizes(Contributions(KnownSelected))

\* The user caches raise, an unknown category is given, and the installers
\* are reported.
C26_Witness ==
  /\ last.op = "analyze_quick_clean"
  /\ last.ret.selected_categories = <<USER_CACHE, "bogus", MACOS_INSTALLERS>>
  /\ last.ret.raising = {USER_CACHE}
  /\ last.ret.denied = {}
  /\ Len(last.ret.iter.yielded) = 2
  /\ last.ret.iter.yielded[1].items = << >>
  /\ last.ret.iter.yielded[2].items # << >>
  /\ last.ret.result.items = last.ret.iter.yielded[2].items

\* The i-th scan thread stores its results in the directory cache in this step.
StoresResults(i) ==
  /\ Len(scan_threads') = Len(scan_threads)
  /\ scan_threads[i].pc = "cache"
  /\ scan_threads'[i].pc = "trim"

\* C27: a listing stored in the directory cache holds exactly one entry for
\* every child the scan that stores it was given by its listing, whatever
\* the cancel requests and the scans started in between.
C27_NoPartialResultCached ==
  [][\A i \in 1..Len(scan_threads) :
       StoresResults(i) =>
         LET results == DcGet(directory_cache', scan_threads[i].selected_path)
         IN /\ { results[k].path : k \in 1..Len(results) } = scan_threads[i].entries
            /\ Len(results) = Cardinality(scan_threads[i].entries)]_vars

\* C28: no path that perform_deletion removes is red to the classifier at
\* the moment it is removed, also when a verdict was stored for it between
\* the test of "Delete Selected" and the confirmation.
C28_NoRedPathIsRemoved ==
  [][last'.op = "perform_deletion" =>
       \A k \in 1..Len(confirmation_row.selected_items) :
         LET path == confirmation_row.selected_items[k].path
         IN path \in disk \ disk' => get_safety_info(path).ret.safety # "red"]_vars

\* The rule table alone gives the path red.
RuleRed(path) ==
  /\ RuleAnswer[Normalized[path]] # None
  /\ RuleAnswer[Normalized[path]].safety = "red"

\* C29: a path the rule table alone gives red is red to the classifier
\* whatever the assisted analyses have stored, and "Delete Selected" refuses
\* a batch that holds it.
C29_RuleRedStaysRed ==
  \A path \in AllPaths :
    RuleRed(path) =>
      /\ get_safety_info(path).ret.safety = "red"
      /\ unsafe_items_of(<<[path |-> path, safety |-> get_safety_info(path).ret.safety]>>) # << >>

\* The oldest of the running scan threads ends in this step, by reset_scan_ui.
OldestScanEnds ==
  /\ scan_threads # << >>
  /\ scan_threads' = Tail(scan_threads)

\* A scan thread ends in this step, by reset_scan_ui.
ScanEnds == Len(scan_threads') < Len(scan_threads)

\* C30: under fair scheduling every scan that was started, whether it
\* completes, is cancelled or fails at its listing, reaches reset_scan_ui
\* (no scan thread stays for ever: the oldest one ends again and again
\* unless no scan is left); when a scan ends the flag is lowered and Scan is
\* enabled; and the flag is raised only while a scan runs that will lower it.
C30_EveryScanEndsAndReleases ==
  /\ ([]<><<OldestScanEnds>>_vars) \/ (<>[](scan_threads = << >>))
  /\ [][ScanEnds => ~scan_thread_state'.cancelled /\ ~scan_button'.disabled]_vars
  /\ [](scan_thread_state.cancelled => scan_threads # << >>)
  /\ (scan_thread_state.cancelled ~> ~scan_thread_state.cancelled)

\* A scan was cancelled and has ended: the flag is lowered, Scan enabled.
C30_Witness ==
  /\ scan_status_text = "Scan cancelled."
  /\ scan_threads = << >>
  /\ ~scan_thread_state.cancelled
  /\ ~scan_button.disabled

=============================================================================
